---- MODULE Spec2Model ----
(***************************************************************************)
(* Job orchestration layer of groovesheet-be.                              *)
(*                                                                         *)
(*   Spec      backend ProcessingService: create_job, the bounded queue,   *)
(*             the worker tasks and _process_job, over JobStorage.         *)
(*   SpecJob   one upload to the same service with a running clock, either *)
(*             JobStorage backend and failing storage and disk operations. *)
(*   SpecWS    worker-service: Pub/Sub callback, process_job and           *)
(*             update_job_status over the job's blobs.                     *)
(***************************************************************************)
EXTENDS Integers, Sequences, FiniteSets, TLC

(***************************************************************************)
(* Bounds                                                                  *)
(***************************************************************************)
\* settings.MAX_CONCURRENT_JOBS (environment-configurable, default 3)
MAX_CONCURRENT_JOBS == 2
\* number of uploads: N + k with k = 1
MaxJobs == MAX_CONCURRENT_JOBS + 1
\* how many times start_workers may spawn a full set of worker tasks
MaxSpawns == 2
\* how many I/O operations (save_job, os.remove) fail in one run of SpecJob
MaxIOFaults == 1
\* how far the wall clock advances (SpecJob)
MaxClock == 2
\* number of Pub/Sub deliveries handled by one worker-service process
MaxDeliveries == 2
\* how many times one extend_ack_deadline thread extends the deadline
MaxExtends == 2

(***************************************************************************)
(* Python values.  None is the empty tuple, every other value is tagged    *)
(* with its type, so that a conversion can change the type of a value.     *)
(***************************************************************************)
None == <<>>
PyStr(s) == <<"str", s>>
PyInt(n) == <<"int", n>>
PyFloat(h) == <<"float", h>>
PyDict(f) == <<"dict", f>>
Some(x) == <<x>>

\* schemas.ProcessingStatus: member name -> value
ProcessingStatus ==
  [PENDING |-> "pending", SEPARATING |-> "separating",
   TRANSCRIBING |-> "transcribing", GENERATING_SHEET |-> "generating_sheet",
   COMPLETED |-> "completed", FAILED |-> "failed"]

StatusNames == DOMAIN ProcessingStatus

\* ProcessingStatus(value): the member with that value
StatusFromValue(v) == CHOOSE s \in StatusNames : ProcessingStatus[s] = v

TerminalStatuses == {"COMPLETED", "FAILED"}

\* uuid.uuid4(): the k-th identifier issued
JobIdSeq == <<"job-1", "job-2", "job-3", "job-4", "job-5", "job-6">>
JobIds == {JobIdSeq[i] : i \in 1..MaxJobs}

\* uploaded file names
Filenames == {"track.mp3"}

\* the upload route stores the file under UPLOAD_DIR/<name>
UploadPath(job_id, filename) == <<"uploads", job_id, filename>>

\* datetime.now() at clock tick t: ticks alternate between a whole second
\* and a half second, so both isoformat() shapes occur
DatetimeAt(t) == [sec |-> t \div 2, micro |-> (t % 2) * 500000]

\* isoformat(timespec='seconds'): the fraction is always omitted
isoformat_seconds(dt) == <<"T", dt.sec>>

\* datetime.isoformat(): the fraction is omitted when microsecond is 0
isoformat(dt) ==
  IF dt.micro = 0 THEN <<"T", dt.sec>> ELSE <<"T", dt.sec, dt.micro>>

\* datetime.fromisoformat()
fromisoformat(s) ==
  IF Len(s) = 2 THEN [sec |-> s[2], micro |-> 0]
  ELSE [sec |-> s[2], micro |-> s[3]]

(***************************************************************************)
(* ProcessingJob                                                           *)
(***************************************************************************)
\* ProcessingJob.__init__
NewProcessingJob(job_id, filename, file_path, t) ==
  [job_id |-> job_id, filename |-> filename, file_path |-> file_path,
   status |-> "PENDING", progress |-> 0, message |-> <<"Job created">>,
   created_at |-> DatetimeAt(t), updated_at |-> DatetimeAt(t),
   result |-> None, error |-> None]

\* TranscriptionResult.dict()
ResultDict(res) ==
  PyDict([job_id |-> PyStr(res.job_id),
          musicxml_path |-> PyStr(res.musicxml_path),
          midi_path |-> PyStr(res.midi_path),
          drum_audio_path |-> PyStr(res.drum_audio_path),
          processing_time |-> PyFloat(res.processing_time)])

\* TranscriptionResult(**data)
ResultFromDict(d) ==
  [job_id |-> d[2].job_id[2], musicxml_path |-> d[2].musicxml_path[2],
   midi_path |-> d[2].midi_path[2],
   drum_audio_path |-> d[2].drum_audio_path[2],
   processing_time |-> d[2].processing_time[2]]

\* ProcessingJob.to_dict
to_dict(job) ==
  [job_id |-> PyStr(job.job_id),
   filename |-> PyStr(job.filename),
   file_path |-> PyStr(job.file_path),
   status |-> PyStr(ProcessingStatus[job.status]),
   progress |-> PyInt(job.progress),
   message |-> PyStr(job.message),
   created_at |-> PyStr(isoformat(job.created_at)),
   updated_at |-> PyStr(isoformat(job.updated_at)),
   result |-> IF job.result # None THEN ResultDict(job.result[1]) ELSE None,
   error |-> IF job.error # None THEN PyStr(job.error[1]) ELSE None]

\* ProcessingJob.from_dict
from_dict(data) ==
  [job_id |-> data.job_id[2],
   filename |-> data.filename[2],
   file_path |-> data.file_path[2],
   status |-> StatusFromValue(data.status[2]),
   progress |-> data.progress[2],
   message |-> data.message[2],
   created_at |-> fromisoformat(data.created_at[2]),
   updated_at |-> fromisoformat(data.updated_at[2]),
   result |-> IF data.result # None THEN Some(ResultFromDict(data.result))
              ELSE None,
   error |-> IF data.error # None THEN Some(data.error[2]) ELSE None]

(***************************************************************************)
(* json.dumps / json.loads.  A JSON text is the sequence of its tokens:    *)
(* <<"{">>, one <<key, value>> member per key, <<"}">>.  JSON has one      *)
(* number type; a number is read back as float exactly when it was written *)
(* with a decimal point.                                                   *)
(***************************************************************************)
\* insertion order of the keys of the dictionaries that are serialised
KeyOrder ==
  <<"job_id", "filename", "file_path", "status", "progress", "message",
    "created_at", "updated_at", "result", "error",
    "musicxml_path", "midi_path", "drum_audio_path", "processing_time">>

KeysOf(f) == SelectSeq(KeyOrder, LAMBDA k : k \in DOMAIN f)

\* json.dumps of a value that is not a dictionary
JsonScalar(v) ==
  IF v = None THEN <<"null">>
  ELSE IF v[1] = "str" THEN <<"string", v[2]>>
  ELSE IF v[1] = "int" THEN <<"number", v[2], FALSE>>
  ELSE <<"number", v[2], TRUE>>

\* json.dumps of a value whose dictionaries hold no further dictionaries
JsonValue(v) ==
  IF v # None /\ v[1] = "dict"
  THEN <<"object", [i \in 1..Len(KeysOf(v[2])) |->
                      <<KeysOf(v[2])[i], JsonScalar(v[2][KeysOf(v[2])[i]])>>]>>
  ELSE JsonScalar(v)

\* json.dumps(job_data, default=str)
json_dumps(f) ==
  <<<<"{">>>> \o [i \in 1..Len(KeysOf(f)) |->
                <<KeysOf(f)[i], JsonValue(f[KeysOf(f)[i]])>>] \o <<<<"}">>>>

\* a text json.loads accepts: a complete object
WellFormed(text) ==
  /\ Len(text) >= 2
  /\ text[1] = <<"{">>
  /\ text[Len(text)] = <<"}">>

\* the dictionary of a sequence of members (a repeated key keeps the last)
DictOfMembers(ms) ==
  [k \in {ms[i][1] : i \in 1..Len(ms)} |->
     LET last == CHOOSE i \in 1..Len(ms) :
                   /\ ms[i][1] = k
                   /\ \A n \in (i+1)..Len(ms) : ms[n][1] # k
     IN ms[last][2]]

\* json.loads of a token that is not an object
ParseScalar(tok) ==
  IF tok[1] = "null" THEN None
  ELSE IF tok[1] = "string" THEN PyStr(tok[2])
  ELSE IF tok[3] THEN PyFloat(tok[2]) ELSE PyInt(tok[2])

\* json.loads of a member value: a nested object or a scalar
ParseValue(tok) ==
  IF tok[1] = "object"
  THEN LET toks == DictOfMembers(tok[2])
       IN PyDict([k \in DOMAIN toks |-> ParseScalar(toks[k])])
  ELSE ParseScalar(tok)

\* json.loads(text) for a well-formed text
json_loads(text) ==
  LET toks == DictOfMembers(SubSeq(text, 2, Len(text) - 1))
  IN [k \in DOMAIN toks |-> ParseValue(toks[k])]

(***************************************************************************)
(* State                                                                   *)
(***************************************************************************)
VARIABLES
  initialized,        \* ModelManager.is_ready()
  cleanup_after,      \* settings.CLEANUP_AFTER_PROCESSING
  use_cloud_storage,  \* JobStorage.use_cloud_storage
  localFiles,         \* JobStorage, local backend: job_id -> None | Some(text)
  gcsBlobs,           \* JobStorage, GCS backend:   job_id -> None | Some(text)
  uploads,            \* uploaded input files that exist on disk
  now,                \* clock tick read by datetime.now()
  issued,             \* number of job ids issued by uuid4
  jobs,               \* ProcessingService.jobs (in-memory cache)
  processing_queue,   \* ProcessingService.processing_queue
  putters,            \* create_job calls suspended in processing_queue.put
  workers_started,    \* ProcessingService._workers_started
  spawned,            \* number of worker tasks created so far
  wpc,                \* worker task -> position in _worker / _process_job
  wjob,               \* worker task -> job_id it dequeued (None when idle)
  trace,              \* job_id -> its saves and collaborator calls, in order
  lastSave,           \* job_id -> the last save_job call made for it
  ioBudget,           \* number of I/O operations that may still fail
  workerLog           \* worker task -> job ids it dequeued, in order

\* worker-service/worker.py
VARIABLES
  ws_meta,          \* blob jobs/<id>/metadata.json: None | Some(dictionary)
  ws_input,         \* job ids whose blob jobs/<id>/input.mp3 exists
  ws_output,        \* job ids whose blob jobs/<id>/output.musicxml exists
  processing_jobs,  \* the module-level set processing_jobs
  dpc,              \* delivery -> position in callback / process_job
  dmsg,             \* delivery -> the message payload
  dexc,             \* delivery -> message of the exception process_job caught
  dack,             \* delivery -> "none" | "acked" | "nacked"
  ws_tcalls,        \* job id -> number of annoteator.transcribe_audio calls
  dcalls,           \* delivery -> collaborator calls made while handling it
  dwrites,          \* delivery -> blob writes made while handling it
  dstart,           \* delivery -> what held when the message was delivered,
                    \* and whether the duplicate check dropped it
  ws_faults,        \* bucket operations that raised so far
  tpc,              \* delivery -> position of its extend_ack_deadline thread
  stop_acking,      \* delivery -> the threading.Event stop_acking is set
  dext              \* delivery -> for each modify_ack_deadline call made for
                    \* its message, the ack state of the message at the call

\* the pollers of a local jobs directory: worker-service/worker_local.py and
\* LocalWorker of annoteator-worker/worker.py
VARIABLES
  poller,           \* which of the two programs polls the directory
  job_dirs,         \* job_id -> the files of its directory: the descriptor
                    \* metadata.json (None when absent), input.mp3 and
                    \* output.musicxml (present or not)
  processed_jobs,   \* worker_local.main: ids already passed to process_job
  ppc,              \* position of the poller
  scan_list,        \* directories of the current scan not yet visited
  pcur,             \* the job whose transcription is running
  pscans,           \* scans begun since the process started
  prestarts,        \* restarts of the poller process
  pvisits,          \* job_id -> times a scan reached its directory
  pcalls,           \* job_id -> transcriptions started for it
  pwrites           \* job_id -> writes of its descriptor by the poller

\* api-service/main.py
VARIABLES
  apc,              \* request -> position in transcribe
  ajob,             \* request -> the job_id uuid4 returned for it
  published,        \* job ids whose message is on the worker topic
  partial_input     \* job ids whose input.mp3 exists in the jobs directory
                    \* and is not completely written

pollVars ==
  <<poller, job_dirs, processed_jobs, ppc, scan_list, pcur, pscans, prestarts,
    pvisits, pcalls, pwrites>>

apiVars == <<apc, ajob, published, partial_input>>

cloudVars ==
  <<ws_meta, ws_input, ws_output, processing_jobs, dpc, dmsg, dexc, dack,
    ws_tcalls, dcalls, dwrites, dstart, ws_faults, tpc, stop_acking, dext>>

wsVars == <<cloudVars, pollVars, apiVars>>

timerVars == <<tpc, stop_acking, dext>>

storeVars == <<use_cloud_storage, localFiles, gcsBlobs>>
histVars == <<trace, lastSave, ioBudget, workerLog>>
workerVars == <<wpc, wjob>>
backendVars ==
  <<initialized, cleanup_after, use_cloud_storage, localFiles, gcsBlobs,
    uploads, now, issued, jobs, processing_queue, putters, workers_started,
    spawned, wpc, wjob, trace, lastSave, ioBudget, workerLog, apiVars>>

Workers == 1..(MAX_CONCURRENT_JOBS * MaxSpawns)

\* duration measured by time.time() - start_time, in hundredths of a second
ProcessingTimes == {4567}

OutputPath(job_id, name) == <<"outputs", job_id, name>>

(***************************************************************************)
(* One synchronous stretch of code.  The service runs on one asyncio event *)
(* loop, so the statements between two awaits run without interleaving.    *)
(* A frame holds what such a stretch reads and writes for one job; the     *)
(* operators below transform frames, and Commit stores the final frame.    *)
(***************************************************************************)
Frame(job) ==
  [job |-> job, files |-> localFiles, blobs |-> gcsBlobs,
   trace |-> trace[job.job_id], last |-> lastSave[job.job_id],
   budget |-> ioBudget, uploads |-> uploads]

Commit(st) ==
  /\ jobs' = (st.job.job_id :> st.job) @@ jobs
  /\ localFiles' = st.files
  /\ gcsBlobs' = st.blobs
  /\ trace' = [trace EXCEPT ![st.job.job_id] = st.trace]
  /\ lastSave' = [lastSave EXCEPT ![st.job.job_id] = st.last]
  /\ ioBudget' = st.budget
  /\ uploads' = st.uploads

\* entries of trace
SaveEvent(job, by, ok) ==
  [ev |-> "save", what |-> by, status |-> job.status,
   progress |-> job.progress, result |-> job.result # None,
   error |-> job.error, ok |-> ok]

CallEvent(job, name) ==
  [ev |-> "call", what |-> name, status |-> job.status,
   progress |-> job.progress, result |-> job.result # None,
   error |-> job.error, ok |-> TRUE]

(***************************************************************************)
(* JobStorage                                                              *)
(***************************************************************************)
\* the ways one save_job call can end: written; an exception before the
\* target is touched; an exception after open(file_path, 'w') truncated it
SaveOutcomes == {"ok", "error", "truncated"}

\* an outcome that can happen in frame st
Allowed(st, outcome) ==
  \/ outcome = "ok"
  \/ /\ st.budget > 0
     /\ outcome = "truncated" => ~use_cloud_storage

\* job_data['updated_at'] = datetime.now().isoformat()
Stamped(job_data) ==
  [job_data EXCEPT !.updated_at = PyStr(isoformat(DatetimeAt(now)))]

\* JobStorage.save_job: the value returned
SaveReturns(outcome) == outcome = "ok"

\* JobStorage.save_job(job_id, job.to_dict()) called by `by`
save_job(st, by, outcome) ==
  LET job_id == st.job.job_id
      job_data == Stamped(to_dict(st.job))
      json_data == json_dumps(job_data)
  IN [st EXCEPT
        !.blobs = IF use_cloud_storage /\ outcome = "ok"
                  THEN [@ EXCEPT ![job_id] = Some(json_data)] ELSE @,
        !.files = IF use_cloud_storage THEN @
                  ELSE IF outcome = "ok"
                  THEN [@ EXCEPT ![job_id] = Some(json_data)]
                  ELSE IF outcome = "truncated"
                  THEN [@ EXCEPT ![job_id] = Some(<<>>)]
                  ELSE @,
        !.trace = Append(@, SaveEvent(st.job, by, SaveReturns(outcome))),
        !.last = Some([ok |-> SaveReturns(outcome), at |-> now]),
        !.budget = IF SaveReturns(outcome) THEN @ ELSE @ - 1]

\* JobStorage.load_job: None when the object is absent or cannot be parsed
load_job(job_id) ==
  LET obj == IF use_cloud_storage THEN gcsBlobs[job_id]
             ELSE localFiles[job_id]
  IN IF obj = None THEN None
     ELSE IF WellFormed(obj[1]) THEN Some(json_loads(obj[1]))
     ELSE None

(***************************************************************************)
(* ProcessingService                                                       *)
(***************************************************************************)
EmptyDict == [k \in {} |-> None]

InitBackend ==
  /\ initialized \in BOOLEAN
  /\ cleanup_after \in BOOLEAN
  /\ localFiles = [j \in JobIds |-> None]
  /\ gcsBlobs = [j \in JobIds |-> None]
  /\ uploads = {}
  /\ now = 0
  /\ issued = 0
  /\ jobs = EmptyDict
  /\ processing_queue = <<>>
  /\ putters = {}
  /\ workers_started = FALSE
  /\ spawned = 0
  /\ wpc = [w \in Workers |-> "none"]
  /\ wjob = [w \in Workers |-> None]
  /\ trace = [j \in JobIds |-> <<>>]
  /\ lastSave = [j \in JobIds |-> None]
  /\ workerLog = [w \in Workers |-> <<>>]

\* start_workers without its _workers_started guard
AlwaysStartWorkers == TRUE

\* start_workers: the test that guards the creation of the worker tasks
ShouldStartWorkers == ~workers_started

\* ProcessingService.start_workers
start_workers ==
  /\ IF /\ ShouldStartWorkers
        /\ spawned + MAX_CONCURRENT_JOBS <= Cardinality(Workers)
     THEN /\ workers_started' = TRUE
          /\ wpc' = [w \in Workers |->
                       IF w \in (spawned + 1)..(spawned + MAX_CONCURRENT_JOBS)
                       THEN "get" ELSE wpc[w]]
          /\ spawned' = spawned + MAX_CONCURRENT_JOBS
     ELSE UNCHANGED <<workers_started, wpc, spawned>>
  /\ UNCHANGED <<initialized, cleanup_after, storeVars, uploads, now, issued,
                 jobs, processing_queue, putters, wjob, histVars>>
  /\ UNCHANGED wsVars

\* asyncio.Queue() without maxsize is never full
QueueNeverFull == FALSE

\* asyncio.Queue(maxsize=settings.MAX_CONCURRENT_JOBS).full()
QueueFull == Len(processing_queue) >= MAX_CONCURRENT_JOBS

\* ProcessingService.create_job, up to and including a put that does not wait
create_job(filename) ==
  /\ issued < MaxJobs
  /\ LET job_id == JobIdSeq[issued + 1]
         file_path == UploadPath(job_id, filename)
         job == NewProcessingJob(job_id, filename, file_path, now)
         st0 == [Frame(job) EXCEPT !.uploads = @ \cup {file_path}]
     IN \E outcome \in SaveOutcomes :
          /\ Allowed(st0, outcome)
          /\ Commit(save_job(st0, "create_job", outcome))
          /\ issued' = issued + 1
          /\ IF QueueFull
             THEN /\ putters' = putters \cup {job_id}
                  /\ UNCHANGED processing_queue
             ELSE /\ processing_queue' = Append(processing_queue, job_id)
                  /\ UNCHANGED putters
  /\ UNCHANGED <<initialized, cleanup_after, use_cloud_storage, now,
                 workers_started, spawned, workerVars, workerLog>>
  /\ UNCHANGED wsVars

\* ProcessingService.create_job: processing_queue.put resumes after a get
put_resume(job_id) ==
  /\ job_id \in putters
  /\ ~QueueFull
  /\ processing_queue' = Append(processing_queue, job_id)
  /\ putters' = putters \ {job_id}
  /\ UNCHANGED <<initialized, cleanup_after, storeVars, uploads, now, issued,
                 jobs, workers_started, spawned, workerVars, histVars>>
  /\ UNCHANGED wsVars

\* ProcessingService.get_job_status: the memory cache first, then the storage
get_job_status(job_id) ==
  IF job_id \in DOMAIN jobs THEN Some(jobs[job_id])
  ELSE IF load_job(job_id) # None THEN Some(from_dict(load_job(job_id)[1]))
  ELSE None

\* a _save_job_state that stamps created_at as well
SaveJobStateRestamps(st, outcome) ==
  save_job([st EXCEPT !.job.updated_at = DatetimeAt(now),
                      !.job.created_at = DatetimeAt(now)], "_process_job",
           outcome)

\* ProcessingService._save_job_state
save_job_state(st, outcome) ==
  save_job([st EXCEPT !.job.updated_at = DatetimeAt(now)], "_process_job",
           outcome)

\* _process_job: status, progress and message are assigned, then saved
SetStage(st, status, progress, text, outcome) ==
  save_job_state([st EXCEPT !.job.status = status,
                            !.job.progress = progress,
                            !.job.message = <<text>>,
                            !.job.updated_at = DatetimeAt(now)], outcome)

\* _process_job: progress and message are assigned, then saved
SetProgress(st, progress, text, outcome) ==
  save_job_state([st EXCEPT !.job.progress = progress,
                            !.job.message = <<text>>,
                            !.job.updated_at = DatetimeAt(now)], outcome)

\* _process_job: a collaborator is invoked (the await begins)
Invoke(st, name) == [st EXCEPT !.trace = Append(@, CallEvent(st.job, name))]

\* os.path.exists + os.remove inside try/except: "removed" when the file is
\* gone afterwards, "raises" when os.remove fails and the handler only logs
RemoveOutcomes == {"removed", "raises"}

RemoveAllowed(st, rm) ==
  \/ rm = "removed"
  \/ /\ st.job.file_path \in st.uploads
     /\ st.budget > 0

\* entry of trace for a call of os.remove on the upload of a job
RemoveEvent(job, ok) ==
  [ev |-> "remove", what |-> "os.remove", status |-> job.status,
   progress |-> job.progress, result |-> job.result # None,
   error |-> job.error, ok |-> ok]

RemoveUpload(st, rm) ==
  IF rm = "removed"
  THEN IF st.job.file_path \in st.uploads
       THEN [st EXCEPT !.uploads = @ \ {st.job.file_path},
                       !.trace = Append(@, RemoveEvent(st.job, TRUE))]
       ELSE st
  ELSE [st EXCEPT !.budget = @ - 1,
                  !.trace = Append(@, RemoveEvent(st.job, FALSE))]

\* _process_job, lines 190-201: stage 1 begins, separate_drums is awaited
StageSeparate(st, o) ==
  Invoke(SetStage(st, "SEPARATING", 10,
                  "Separating drum track from audio...", o),
         "separate_drums")

\* separate_drums returned and the new progress is assigned but not saved
SeparateDoneUnsaved(st, o) ==
  [st EXCEPT !.job.progress = 40,
             !.job.message = <<"Drum track separated successfully">>,
             !.job.updated_at = DatetimeAt(now)]

\* _process_job, lines 203-206: separate_drums returned
SeparateDone(st, o) ==
  SetProgress(st, 40, "Drum track separated successfully", o)

\* stage 2 with the status of stage 3 assigned
StageTranscribeWrongStatus(st, o) ==
  Invoke(SetStage(st, "GENERATING_SHEET", 50, "Transcribing drum notation...",
                  o),
         "transcribe_drums")

\* _process_job, lines 209-220: stage 2 begins, transcribe_drums is awaited
StageTranscribe(st, o) ==
  Invoke(SetStage(st, "TRANSCRIBING", 50, "Transcribing drum notation...", o),
         "transcribe_drums")

\* _process_job, lines 222-225: transcribe_drums returned
TranscribeDone(st, o) == SetProgress(st, 70, "Drum transcription complete", o)

\* stage 3 as a copy of stage 2 would write it: the transcription is awaited
\* a second time in place of the notation
StageSheetRepeatsTranscribe(st, o) ==
  Invoke(SetStage(st, "GENERATING_SHEET", 80,
                  "Generating MusicXML notation...", o),
         "transcribe_drums")

\* _process_job, lines 228-240: stage 3 begins, midi_to_musicxml is awaited
StageSheet(st, o) ==
  Invoke(SetStage(st, "GENERATING_SHEET", 80,
                  "Generating MusicXML notation...", o),
         "midi_to_musicxml")

\* _process_job, lines 242-245: midi_to_musicxml returned
SheetDone(st, o) == SetProgress(st, 95, "MusicXML notation generated", o)

\* the completion without the assignment to job.result
CompleteDropsResult(st, processing_time, o) ==
  save_job_state(
    [st EXCEPT !.job.status = "COMPLETED",
               !.job.progress = 100,
               !.job.message = <<"Processing completed in ",
                                 processing_time, "s">>,
               !.job.updated_at = DatetimeAt(now)], o)

\* _process_job, lines 248-264: the job completes
Complete(st, processing_time, o) ==
  LET job_id == st.job.job_id
      result == [job_id |-> job_id,
                 musicxml_path |-> OutputPath(job_id, "drum_sheet.musicxml"),
                 midi_path |-> OutputPath(job_id, "drums.mid"),
                 drum_audio_path |-> OutputPath(job_id, "drums.wav"),
                 processing_time |-> processing_time]
  IN save_job_state(
       [st EXCEPT !.job.status = "COMPLETED",
                  !.job.progress = 100,
                  !.job.message = <<"Processing completed in ",
                                    processing_time, "s">>,
                  !.job.updated_at = DatetimeAt(now),
                  !.job.result = Some(result)], o)

\* cleanup after completion without the test of CLEANUP_AFTER_PROCESSING
CleanupAlways(st, rm) == RemoveUpload(st, rm)

\* _process_job, lines 270-277: cleanup of the upload after completion
CleanupAfterProcessing(st, rm) ==
  IF cleanup_after THEN RemoveUpload(st, rm) ELSE st

\* the handler as worker-service writes it: progress is reset on failure
HandleExceptionResetsProgress(st, error_msg, o) ==
  save_job_state(
    [st EXCEPT !.job.status = "FAILED",
               !.job.progress = 0,
               !.job.message = <<"Processing failed: ", error_msg>>,
               !.job.error = Some(error_msg),
               !.job.updated_at = DatetimeAt(now)], o)

\* _process_job, lines 279-287: the exception handler up to the save
HandleException(st, error_msg, o) ==
  save_job_state(
    [st EXCEPT !.job.status = "FAILED",
               !.job.message = <<"Processing failed: ", error_msg>>,
               !.job.error = Some(error_msg),
               !.job.updated_at = DatetimeAt(now)], o)

\* a worker that returns after its first job
WorkerReturns == "stopped"

\* _worker, line 99: while True, the task goes back to awaiting get()
WorkerLoops == "get"

\* a collaborator call placed outside the try block
EscapesTry(error_msg) == FALSE

\* does the try block of _process_job catch an exception raised in it?
CatchesException(error_msg) == TRUE

\* an exception is raised inside the try block of _process_job by worker w:
\* the handler runs, _process_job returns, the worker marks the task done
\* and awaits the next id
RaiseInProcessJob(w, st, error_msg) ==
  IF CatchesException(error_msg)
  THEN \E o \in SaveOutcomes, rm \in RemoveOutcomes :
         LET s1 == HandleException(st, error_msg, o)
             s2 == RemoveUpload(s1, rm)
         IN /\ Allowed(st, o)
            /\ RemoveAllowed(s1, rm)
            /\ Commit(s2)
            /\ wpc' = [wpc EXCEPT ![w] = WorkerLoops]
            /\ wjob' = [wjob EXCEPT ![w] = None]
  ELSE /\ Commit(st)
       /\ wpc' = [wpc EXCEPT ![w] = "crashed"]
       /\ UNCHANGED wjob

\* a get() that returns the head of the queue and leaves it there
QueueAfterPeek(q) == q

\* asyncio.Queue.get: the id returned is removed from the queue
QueueAfterGet(q) == Tail(q)

\* the job a suspended worker is processing
JobOf(w) == jobs[wjob[w][1]]

\* ProcessingService._worker: processing_queue.get() returns an id and the
\* worker runs _process_job up to its first await
worker_get(w) ==
  /\ wpc[w] = "get"
  /\ processing_queue # <<>>
  /\ LET job_id == Head(processing_queue) IN
       /\ processing_queue' = QueueAfterGet(processing_queue)
       /\ workerLog' = [workerLog EXCEPT ![w] = Append(@, job_id)]
       /\ IF job_id \notin DOMAIN jobs
          THEN UNCHANGED <<wpc, wjob, jobs, storeVars, uploads, trace,
                           lastSave, ioBudget>>
          ELSE IF ~initialized
          THEN /\ RaiseInProcessJob(w, Frame(jobs[job_id]),
                                    "Models not initialized")
               /\ UNCHANGED use_cloud_storage
          ELSE \E o \in SaveOutcomes :
                 /\ Allowed(Frame(jobs[job_id]), o)
                 /\ Commit(StageSeparate(Frame(jobs[job_id]), o))
                 /\ wpc' = [wpc EXCEPT ![w] = "await_separate_drums"]
                 /\ wjob' = [wjob EXCEPT ![w] = Some(job_id)]
                 /\ UNCHANGED use_cloud_storage
  /\ UNCHANGED <<initialized, cleanup_after, now, issued, putters,
                 workers_started, spawned>>
  /\ UNCHANGED wsVars

\* messages of the exceptions a collaborator raises; str(e) of an exception
\* raised without arguments is the empty string
ExcMessages == {"", "Drums track not found in separated output"}

\* an awaited collaborator raises
CollaboratorRaises(w, pc) ==
  /\ wpc[w] = pc
  /\ \E error_msg \in ExcMessages :
       RaiseInProcessJob(w, Frame(JobOf(w)), error_msg)
  /\ UNCHANGED <<initialized, cleanup_after, use_cloud_storage, now, issued,
                 processing_queue, putters, workers_started, spawned,
                 workerLog>>
  /\ UNCHANGED wsVars

\* _process_job, lines 198-220: separate_drums returns, progress 40 is
\* saved, stage 2 begins and transcribe_drums is awaited
separate_returns(w) ==
  /\ wpc[w] = "await_separate_drums"
  /\ \E o1 \in SaveOutcomes, o2 \in SaveOutcomes :
       LET s1 == SeparateDone(Frame(JobOf(w)), o1)
           s2 == StageTranscribe(s1, o2)
       IN /\ Allowed(Frame(JobOf(w)), o1)
          /\ Allowed(s1, o2)
          /\ Commit(s2)
  /\ wpc' = [wpc EXCEPT ![w] = "await_transcribe_drums"]
  /\ UNCHANGED <<initialized, cleanup_after, use_cloud_storage, now, issued,
                 processing_queue, putters, workers_started, spawned, wjob,
                 workerLog>>
  /\ UNCHANGED wsVars

\* _process_job: await separate_drums(...) ends
await_separate_drums(w) ==
  \/ separate_returns(w)
  \/ CollaboratorRaises(w, "await_separate_drums")

\* _process_job, lines 217-240: transcribe_drums returns, progress 70 is
\* saved, stage 3 begins and midi_to_musicxml is awaited
transcribe_returns(w) ==
  /\ wpc[w] = "await_transcribe_drums"
  /\ \E o1 \in SaveOutcomes, o2 \in SaveOutcomes :
       LET s1 == TranscribeDone(Frame(JobOf(w)), o1)
           s2 == StageSheet(s1, o2)
       IN /\ Allowed(Frame(JobOf(w)), o1)
          /\ Allowed(s1, o2)
          /\ Commit(s2)
  /\ wpc' = [wpc EXCEPT ![w] = "await_midi_to_musicxml"]
  /\ UNCHANGED <<initialized, cleanup_after, use_cloud_storage, now, issued,
                 processing_queue, putters, workers_started, spawned, wjob,
                 workerLog>>
  /\ UNCHANGED wsVars

\* _process_job: await transcribe_drums(...) ends
await_transcribe_drums(w) ==
  \/ transcribe_returns(w)
  \/ CollaboratorRaises(w, "await_transcribe_drums")

\* _process_job: await midi_to_musicxml(...) returns; the job completes,
\* _process_job returns, the worker marks the task done and awaits the next id
musicxml_returns(w) ==
  /\ wpc[w] = "await_midi_to_musicxml"
  /\ \E o1 \in SaveOutcomes, o2 \in SaveOutcomes, rm \in RemoveOutcomes,
        processing_time \in ProcessingTimes :
       LET s1 == SheetDone(Frame(JobOf(w)), o1)
           s2 == Complete(s1, processing_time, o2)
           s3 == CleanupAfterProcessing(s2, rm)
       IN /\ Allowed(Frame(JobOf(w)), o1)
          /\ Allowed(s1, o2)
          /\ IF cleanup_after THEN RemoveAllowed(s2, rm) ELSE rm = "removed"
          /\ Commit(s3)
  /\ wpc' = [wpc EXCEPT ![w] = WorkerLoops]
  /\ wjob' = [wjob EXCEPT ![w] = None]
  /\ UNCHANGED <<initialized, cleanup_after, use_cloud_storage, now, issued,
                 processing_queue, putters, workers_started, spawned,
                 workerLog>>
  /\ UNCHANGED wsVars

\* _process_job: await midi_to_musicxml(...) ends
await_midi_to_musicxml(w) ==
  \/ musicxml_returns(w)
  \/ CollaboratorRaises(w, "await_midi_to_musicxml")

(***************************************************************************)
(* worker-service/worker.py                                                *)
(***************************************************************************)
Deliveries == 1..MaxDeliveries

WSJobIds == {"job-1", "job-2"}

\* message.data: a JSON object with job_id and bucket, or a malformed payload
Payloads ==
  [kind : {"valid"}, job_id : WSJobIds]
    \cup [kind : {"invalid_json", "not_utf8", "no_job_id", "no_bucket"},
          job_id : {"job-1"}]

\* the metadata api-service writes when the job is submitted
QueuedMeta(job_id) ==
  [job_id |-> job_id, status |-> "queued",
   created_at |-> "2024-01-01T00:00:00", filename |-> "track.mp3",
   progress |-> 0]

\* descriptors a delivery can find: none, the submitted one, or one left by
\* an earlier run of the worker
InitialMetas(job_id) ==
  {None, Some(QueuedMeta(job_id)),
   Some([QueuedMeta(job_id) EXCEPT !.status = "processing", !.progress = 30]),
   Some([QueuedMeta(job_id) EXCEPT !.status = "completed", !.progress = 100]),
   Some([QueuedMeta(job_id) EXCEPT !.status = "failed", !.progress = 0]
          @@ [error |-> "Input file not found"])}

InitWS ==
  /\ ws_meta \in {m \in [WSJobIds -> UNION {InitialMetas(j) : j \in WSJobIds}] :
                    \A j \in WSJobIds : m[j] \in InitialMetas(j)}
  /\ ws_input \in SUBSET WSJobIds
  /\ ws_output = {j \in WSJobIds :
                    ws_meta[j] # None /\ ws_meta[j][1].status = "completed"}
  /\ processing_jobs = {}
  /\ dpc = [d \in Deliveries |-> "idle"]
  /\ dmsg = [d \in Deliveries |-> None]
  /\ dexc = [d \in Deliveries |-> None]
  /\ dack = [d \in Deliveries |-> "none"]
  /\ ws_tcalls = [j \in WSJobIds |-> 0]
  /\ dcalls = [d \in Deliveries |-> 0]
  /\ dwrites = [d \in Deliveries |-> 0]
  /\ dstart = [d \in Deliveries |-> None]
  /\ tpc = [d \in Deliveries |-> "off"]
  /\ stop_acking = [d \in Deliveries |-> FALSE]
  /\ dext = [d \in Deliveries |-> <<>>]

\* a status check that also leaves a job in status processing alone
SkipUnlessQueued == {"completed", "failed", "processing"}

\* statuses for which process_job returns without processing
SkipStatuses == {"completed", "failed"}

MetaStatus(job_id) ==
  IF ws_meta[job_id] = None THEN "" 
  ELSE IF "status" \in DOMAIN ws_meta[job_id][1]
       THEN ws_meta[job_id][1].status ELSE ""

\* deliveries of job_id that are being handled
InFlight(job_id) ==
  {d \in Deliveries : /\ dpc[d] \notin {"idle", "done"}
                      /\ dmsg[d] # None
                      /\ dmsg[d][1].kind = "valid"
                      /\ dmsg[d][1].job_id = job_id}

\* the subscriber invokes callback(message)
deliver(d, payload) ==
  /\ dpc[d] = "idle"
  /\ dpc' = [dpc EXCEPT ![d] = "callback"]
  /\ dmsg' = [dmsg EXCEPT ![d] = Some(payload)]
  /\ dstart' = [dstart EXCEPT ![d] =
       Some([terminal |-> /\ payload.kind = "valid"
                          /\ MetaStatus(payload.job_id)
                               \in {"completed", "failed"},
             overlap |-> IF payload.kind = "valid"
                         THEN InFlight(payload.job_id) ELSE {},
             status |-> IF payload.kind = "valid"
                        THEN MetaStatus(payload.job_id) ELSE "",
             input |-> payload.kind = "valid" /\ payload.job_id \in ws_input,
             duplicate |-> FALSE])]
  /\ UNCHANGED <<ws_meta, ws_input, ws_output, processing_jobs, dexc, dack,
                 ws_tcalls, dcalls, dwrites>>
  /\ UNCHANGED <<backendVars, pollVars, ws_faults, timerVars>>

\* callback, lines 217-227: decode the payload, start the extender thread
cb_decode(d) ==
  /\ dpc[d] = "callback"
  /\ LET kind == dmsg[d][1].kind IN
       IF kind = "valid"
       THEN \* lines 224-226: ack_thread.start()
            /\ dpc' = [dpc EXCEPT ![d] = "pj_dedup"]
            /\ tpc' = [tpc EXCEPT ![d] = "while"]
            /\ UNCHANGED <<dack, stop_acking>>
       ELSE IF kind = "invalid_json"
       THEN \* except json.JSONDecodeError: stop_acking.set(), ack
            /\ dpc' = [dpc EXCEPT ![d] = "done"]
            /\ dack' = [dack EXCEPT ![d] = "acked"]
            /\ stop_acking' = [stop_acking EXCEPT ![d] = TRUE]
            /\ UNCHANGED tpc
       ELSE \* UnicodeDecodeError, KeyError: except Exception:
            \* stop_acking.set(), nack
            /\ dpc' = [dpc EXCEPT ![d] = "done"]
            /\ dack' = [dack EXCEPT ![d] = "nacked"]
            /\ stop_acking' = [stop_acking EXCEPT ![d] = TRUE]
            /\ UNCHANGED tpc
  /\ UNCHANGED <<ws_meta, ws_input, ws_output, processing_jobs, dmsg, dexc,
                 ws_tcalls, dcalls, dwrites, dstart, dext>>
  /\ UNCHANGED <<backendVars, pollVars, ws_faults>>

DJob(d) == dmsg[d][1].job_id

\* process_job, line 51: is the job already being processed?
AlreadyProcessing(job_id) == job_id \in processing_jobs

\* a duplicate that leaves through the finally block
DuplicateLeavesByFinally == "pj_finally"

\* process_job, lines 51-53: the return of a duplicate is before the try
\* statement, so it goes back to callback
DuplicateReturnsTo == "cb_stop"

\* process_job, lines 50-54: the duplicate check under processing_lock
pj_dedup(d) ==
  /\ dpc[d] = "pj_dedup"
  /\ IF AlreadyProcessing(DJob(d))
     THEN /\ dpc' = [dpc EXCEPT ![d] = DuplicateReturnsTo]
          /\ dstart' = [dstart EXCEPT ![d] =
               Some([@[1] EXCEPT !.duplicate = TRUE])]
          /\ UNCHANGED processing_jobs
     ELSE /\ processing_jobs' = processing_jobs \cup {DJob(d)}
          /\ dpc' = [dpc EXCEPT ![d] = "pj_check"]
          /\ UNCHANGED dstart
  /\ UNCHANGED <<ws_meta, ws_input, ws_output, dmsg, dexc, dack, ws_tcalls,
                 dcalls, dwrites>>
  /\ UNCHANGED <<backendVars, pollVars, ws_faults, timerVars>>

\* a bucket operation raises (google.api_core.exceptions.*)
BucketErrors == {"503 Service Unavailable"}

\* can one more bucket operation raise?
BucketMayFail == ws_faults < MaxIOFaults

\* process_job, lines 64-81: the status check on the descriptor;
\* lines 77-79: when the descriptor cannot be read, processing continues
pj_check(d) ==
  /\ dpc[d] = "pj_check"
  /\ \/ /\ dpc' = [dpc EXCEPT ![d] =
             IF ws_meta[DJob(d)] # None
                  /\ MetaStatus(DJob(d)) \in SkipStatuses
             THEN "pj_finally" ELSE "pj_mark10"]
        /\ UNCHANGED ws_faults
     \/ /\ ws_meta[DJob(d)] # None
        /\ BucketMayFail
        /\ ws_faults' = ws_faults + 1
        /\ dpc' = [dpc EXCEPT ![d] = "pj_mark10"]
  /\ UNCHANGED <<ws_meta, ws_input, ws_output, processing_jobs, dmsg, dexc,
                 dack, ws_tcalls, dcalls, dwrites, dstart>>
  /\ UNCHANGED <<backendVars, pollVars, timerVars>>

\* update_job_status: the new content of the descriptor
UpdatedMeta(job_id, status, progress, error) ==
  LET job_data == IF ws_meta[job_id] # None THEN ws_meta[job_id][1]
                  ELSE [job_id |-> job_id]
      base == [k \in DOMAIN job_data \cup {"status", "progress"} |->
                 IF k = "status" THEN status
                 ELSE IF k = "progress" THEN progress
                 ELSE job_data[k]]
  IN IF error # None /\ error[1] # ""
     THEN [k \in DOMAIN base \cup {"error"} |->
             IF k = "error" THEN error[1] ELSE base[k]]
     ELSE base

\* update_job_status(bucket, job_id, status, progress, error)
update_job_status(d, status, progress, error) ==
  /\ ws_meta' = [ws_meta EXCEPT ![DJob(d)] =
                   Some(UpdatedMeta(DJob(d), status, progress, error))]
  /\ dwrites' = [dwrites EXCEPT ![d] = @ + 1]

\* where control goes when an exception is raised inside process_job
WSExceptionTarget == "pj_except"

\* a bucket operation of delivery d raises inside the try block
BucketRaises(d) ==
  /\ BucketMayFail
  /\ ws_faults' = ws_faults + 1
  /\ \E msg \in BucketErrors : dexc' = [dexc EXCEPT ![d] = Some(msg)]
  /\ dpc' = [dpc EXCEPT ![d] = WSExceptionTarget]

\* a step of process_job that only updates the descriptor
MarkProgress(d, pc, status, progress, nextpc) ==
  /\ dpc[d] = pc
  /\ \/ /\ update_job_status(d, status, progress, None)
        /\ dpc' = [dpc EXCEPT ![d] = nextpc]
        /\ UNCHANGED <<dexc, ws_faults>>
     \/ /\ BucketRaises(d)
        /\ UNCHANGED <<ws_meta, dwrites>>
  /\ UNCHANGED <<ws_input, ws_output, processing_jobs, dmsg, dack,
                 ws_tcalls, dcalls, dstart>>
  /\ UNCHANGED <<backendVars, pollVars, timerVars>>

\* process_job, line 87
pj_mark10(d) == MarkProgress(d, "pj_mark10", "processing", 10, "pj_input")

\* process_job, lines 93-100: the input blob is looked up and downloaded
pj_input(d) ==
  /\ dpc[d] = "pj_input"
  /\ IF DJob(d) \notin ws_input
     THEN /\ dexc' = [dexc EXCEPT ![d] = Some("Input file not found for job")]
          /\ dpc' = [dpc EXCEPT ![d] = WSExceptionTarget]
     ELSE /\ dpc' = [dpc EXCEPT ![d] = "pj_mark30"]
          /\ UNCHANGED dexc
  /\ UNCHANGED <<ws_meta, ws_input, ws_output, processing_jobs, dmsg, dack,
                 ws_tcalls, dcalls, dwrites, dstart>>
  /\ UNCHANGED <<backendVars, pollVars, ws_faults, timerVars>>

\* process_job, lines 106-107
pj_mark30(d) == MarkProgress(d, "pj_mark30", "processing", 30, "pj_mark30b")

\* process_job, lines 114-131: the title is read, progress is written again
pj_mark30b(d) ==
  MarkProgress(d, "pj_mark30b", "processing", 30, "pj_transcribe")

\* process_job, lines 137-151: annoteator.transcribe_audio returns or raises
pj_transcribe(d) ==
  /\ dpc[d] = "pj_transcribe"
  /\ ws_tcalls' = [ws_tcalls EXCEPT ![DJob(d)] = @ + 1]
  /\ dcalls' = [dcalls EXCEPT ![d] = @ + 1]
  /\ \/ /\ dpc' = [dpc EXCEPT ![d] = "pj_mark90"]
        /\ UNCHANGED dexc
     \/ \E msg \in ExcMessages :
          /\ dexc' = [dexc EXCEPT ![d] = Some(msg)]
          /\ dpc' = [dpc EXCEPT ![d] = WSExceptionTarget]
  /\ UNCHANGED <<ws_meta, ws_input, ws_output, processing_jobs, dmsg, dack,
                 dwrites, dstart>>
  /\ UNCHANGED <<backendVars, pollVars, ws_faults, timerVars>>

\* process_job, line 157
pj_mark90(d) == MarkProgress(d, "pj_mark90", "processing", 90, "pj_upload")

\* an upload that stores nothing
OutputsWithoutUpload(d) == ws_output

\* result_blob.upload_from_filename(result_path): the output objects of the
\* bucket afterwards
OutputsAfterUpload(d) == ws_output \cup {DJob(d)}

\* process_job, lines 163-164: the result is uploaded
pj_upload(d) ==
  /\ dpc[d] = "pj_upload"
  /\ \/ /\ ws_output' = OutputsAfterUpload(d)
        /\ dwrites' = [dwrites EXCEPT ![d] = @ + 1]
        /\ dpc' = [dpc EXCEPT ![d] = "pj_mark100"]
        /\ UNCHANGED <<dexc, ws_faults>>
     \/ /\ BucketRaises(d)
        /\ UNCHANGED <<ws_output, dwrites>>
  /\ UNCHANGED <<ws_meta, ws_input, processing_jobs, dmsg, dack,
                 ws_tcalls, dcalls, dstart>>
  /\ UNCHANGED <<backendVars, pollVars, timerVars>>

\* process_job, line 167
pj_mark100(d) ==
  MarkProgress(d, "pj_mark100", "completed", 100, "pj_leave_tmp")

\* str(e) of an OSError raised by TemporaryDirectory.cleanup
TmpCleanupErrors == {"[Errno 39] Directory not empty"}

\* process_job, lines 93 and 168: the with block of the temporary directory
\* is left after the completed update; its cleanup removes the directory or
\* raises inside the try block
pj_leave_tmp(d) ==
  /\ dpc[d] = "pj_leave_tmp"
  /\ \/ /\ dpc' = [dpc EXCEPT ![d] = "pj_finally"]
        /\ UNCHANGED <<dexc, ws_faults>>
     \/ /\ ws_faults < MaxIOFaults
        /\ ws_faults' = ws_faults + 1
        /\ \E msg \in TmpCleanupErrors :
             dexc' = [dexc EXCEPT ![d] = Some(msg)]
        /\ dpc' = [dpc EXCEPT ![d] = WSExceptionTarget]
  /\ UNCHANGED <<ws_meta, ws_input, ws_output, processing_jobs, dmsg, dack,
                 ws_tcalls, dcalls, dwrites, dstart>>
  /\ UNCHANGED <<backendVars, pollVars, timerVars>>

\* process_job, lines 170-176: the exception handler
pj_ws_except(d) ==
  /\ dpc[d] = "pj_except"
  /\ \/ /\ update_job_status(d, "failed", 0, dexc[d])
        /\ UNCHANGED ws_faults
     \/ \* lines 175-176: update_job_status raised, the error is logged
        /\ BucketMayFail
        /\ ws_faults' = ws_faults + 1
        /\ UNCHANGED <<ws_meta, dwrites>>
  /\ dpc' = [dpc EXCEPT ![d] = "pj_finally"]
  /\ UNCHANGED <<ws_input, ws_output, processing_jobs, dmsg, dexc, dack,
                 ws_tcalls, dcalls, dstart>>
  /\ UNCHANGED <<backendVars, pollVars, timerVars>>

\* process_job, lines 177-180: finally, the id leaves processing_jobs
pj_finally(d) ==
  /\ dpc[d] = "pj_finally"
  /\ processing_jobs' = processing_jobs \ {DJob(d)}
  /\ dpc' = [dpc EXCEPT ![d] = "cb_stop"]
  /\ UNCHANGED <<ws_meta, ws_input, ws_output, dmsg, dexc, dack, ws_tcalls,
                 dcalls, dwrites, dstart>>
  /\ UNCHANGED <<backendVars, pollVars, ws_faults, timerVars>>

\* callback, lines 229-233: process_job returned, stop_acking.set()
cb_stop(d) ==
  /\ dpc[d] = "cb_stop"
  /\ stop_acking' = [stop_acking EXCEPT ![d] = TRUE]
  /\ dpc' = [dpc EXCEPT ![d] = "cb_ack"]
  /\ UNCHANGED <<ws_meta, ws_input, ws_output, processing_jobs, dmsg, dexc,
                 dack, ws_tcalls, dcalls, dwrites, dstart, tpc, dext>>
  /\ UNCHANGED <<backendVars, pollVars, ws_faults>>

\* a callback that nacks when process_job has returned
NackAfterReturn == "nacked"

\* callback, line 236: message.ack() after process_job returned
AckAfterReturn == "acked"

\* callback, lines 235-237: the message is acked
cb_ack(d) ==
  /\ dpc[d] = "cb_ack"
  /\ dack' = [dack EXCEPT ![d] = AckAfterReturn]
  /\ dpc' = [dpc EXCEPT ![d] = "done"]
  /\ UNCHANGED <<ws_meta, ws_input, ws_output, processing_jobs, dmsg, dexc,
                 ws_tcalls, dcalls, dwrites, dstart>>
  /\ UNCHANGED <<backendVars, pollVars, ws_faults, timerVars>>

(***************************************************************************)
(* annoteator-worker/worker.py, cloud mode                                 *)
(***************************************************************************)
\* positions of a delivery inside CloudWorker._callback
CwLabels ==
  {"cj_download", "cj_load", "cj_transcribe", "cj_upload", "cj_complete",
   "cw_ack", "cw_done"}

\* _callback, lines 271-273: except Exception, the message is nacked
CwNack(d, msg) ==
  /\ dexc' = [dexc EXCEPT ![d] = Some(msg)]
  /\ dack' = [dack EXCEPT ![d] = "nacked"]
  /\ dpc' = [dpc EXCEPT ![d] = "cw_done"]

\* a bucket operation of CloudJobProcessor raises into _callback
CwBucketRaises(d) ==
  /\ BucketMayFail
  /\ ws_faults' = ws_faults + 1
  /\ \E msg \in BucketErrors : CwNack(d, msg)

\* _callback, lines 262-268: the payload is decoded; any exception nacks
cw_callback(d) ==
  /\ dpc[d] = "callback"
  /\ IF dmsg[d][1].kind = "valid"
     THEN /\ dpc' = [dpc EXCEPT ![d] = "cj_download"]
          /\ UNCHANGED <<dexc, dack>>
     ELSE CwNack(d, dmsg[d][1].kind)
  /\ UNCHANGED <<ws_meta, ws_input, ws_output, processing_jobs, dmsg,
                 ws_tcalls, dcalls, dwrites, dstart, ws_faults>>
  /\ UNCHANGED <<backendVars, pollVars, timerVars>>

\* CloudJobProcessor.process_job, lines 212-223: the input is downloaded
cj_download(d) ==
  /\ dpc[d] = "cj_download"
  /\ \/ /\ IF DJob(d) \notin ws_input
           THEN CwNack(d, "404 No such object")
           ELSE /\ dpc' = [dpc EXCEPT ![d] = "cj_load"]
                /\ UNCHANGED <<dexc, dack>>
        /\ UNCHANGED ws_faults
     \/ CwBucketRaises(d)
  /\ UNCHANGED <<ws_meta, ws_input, ws_output, processing_jobs, dmsg,
                 ws_tcalls, dcalls, dwrites, dstart>>
  /\ UNCHANGED <<backendVars, pollVars, timerVars>>

\* process_job, line 227 with _load_metadata, lines 196-210
cj_load(d) ==
  /\ dpc[d] = "cj_load"
  /\ \/ /\ dpc' = [dpc EXCEPT ![d] = "cj_transcribe"]
        /\ UNCHANGED <<dexc, dack, ws_faults>>
     \/ CwBucketRaises(d)
  /\ UNCHANGED <<ws_meta, ws_input, ws_output, processing_jobs, dmsg,
                 ws_tcalls, dcalls, dwrites, dstart>>
  /\ UNCHANGED <<backendVars, pollVars, timerVars>>

\* process_job, lines 230-234: run_transcription returns or raises
cj_transcribe(d) ==
  /\ dpc[d] = "cj_transcribe"
  /\ ws_tcalls' = [ws_tcalls EXCEPT ![DJob(d)] = @ + 1]
  /\ dcalls' = [dcalls EXCEPT ![d] = @ + 1]
  /\ \/ /\ dpc' = [dpc EXCEPT ![d] = "cj_upload"]
        /\ UNCHANGED <<dexc, dack>>
     \/ \E msg \in ExcMessages : CwNack(d, msg)
  /\ UNCHANGED <<ws_meta, ws_input, ws_output, processing_jobs, dmsg,
                 dwrites, dstart, ws_faults>>
  /\ UNCHANGED <<backendVars, pollVars, timerVars>>

\* process_job, lines 237-238: the result is uploaded
cj_upload(d) ==
  /\ dpc[d] = "cj_upload"
  /\ \/ /\ ws_output' = ws_output \cup {DJob(d)}
        /\ dwrites' = [dwrites EXCEPT ![d] = @ + 1]
        /\ dpc' = [dpc EXCEPT ![d] = "cj_complete"]
        /\ UNCHANGED <<dexc, dack, ws_faults>>
     \/ /\ CwBucketRaises(d)
        /\ UNCHANGED <<ws_output, dwrites>>
  /\ UNCHANGED <<ws_meta, ws_input, processing_jobs, dmsg, ws_tcalls,
                 dcalls, dstart>>
  /\ UNCHANGED <<backendVars, pollVars, timerVars>>

\* the metadata dict of _load_metadata with status and progress set: {} when
\* there was no descriptor. The dict was read at line 227; the only writes
\* of this worker set these two keys, so the other keys are as they were
CompletedMeta(job_id) ==
  LET metadata == IF ws_meta[job_id] # None THEN ws_meta[job_id][1]
                  ELSE [status |-> "completed"]
  IN [k \in DOMAIN metadata \cup {"status", "progress"} |->
        IF k = "status" THEN "completed"
        ELSE IF k = "progress" THEN 100
        ELSE metadata[k]]

\* process_job, lines 241-245: the descriptor is written as completed
cj_complete(d) ==
  /\ dpc[d] = "cj_complete"
  /\ \/ /\ ws_meta' = [ws_meta EXCEPT ![DJob(d)] =
                         Some(CompletedMeta(DJob(d)))]
        /\ dwrites' = [dwrites EXCEPT ![d] = @ + 1]
        /\ dpc' = [dpc EXCEPT ![d] = "cw_ack"]
        /\ UNCHANGED <<dexc, dack, ws_faults>>
     \/ /\ CwBucketRaises(d)
        /\ UNCHANGED <<ws_meta, dwrites>>
  /\ UNCHANGED <<ws_input, ws_output, processing_jobs, dmsg, ws_tcalls,
                 dcalls, dstart>>
  /\ UNCHANGED <<backendVars, pollVars, timerVars>>

\* process_job returns when the temporary directory is cleaned up, and
\* _callback, line 269, acks; a cleanup that raises nacks
cw_ack(d) ==
  /\ dpc[d] = "cw_ack"
  /\ \/ /\ dack' = [dack EXCEPT ![d] = "acked"]
        /\ dpc' = [dpc EXCEPT ![d] = "cw_done"]
        /\ UNCHANGED <<dexc, ws_faults>>
     \/ /\ ws_faults < MaxIOFaults
        /\ ws_faults' = ws_faults + 1
        /\ \E msg \in TmpCleanupErrors : CwNack(d, msg)
  /\ UNCHANGED <<ws_meta, ws_input, ws_output, processing_jobs, dmsg,
                 ws_tcalls, dcalls, dwrites, dstart>>
  /\ UNCHANGED <<backendVars, pollVars, timerVars>>

\* extend_ack_deadline, lines 207-210: the loop condition is evaluated and
\* time.sleep(300) returns
t_while(d) ==
  /\ tpc[d] = "while"
  /\ tpc' = [tpc EXCEPT ![d] = IF stop_acking[d] THEN "ended" ELSE "if"]
  /\ UNCHANGED <<ws_meta, ws_input, ws_output, processing_jobs, dpc, dmsg,
                 dexc, dack, ws_tcalls, dcalls, dwrites, dstart, ws_faults,
                 stop_acking, dext>>
  /\ UNCHANGED <<backendVars, pollVars>>

\* extend_ack_deadline, line 211: if not stop_acking.is_set()
t_if(d) ==
  /\ tpc[d] = "if"
  /\ tpc' = [tpc EXCEPT ![d] = IF stop_acking[d] THEN "while" ELSE "modify"]
  /\ UNCHANGED <<ws_meta, ws_input, ws_output, processing_jobs, dpc, dmsg,
                 dexc, dack, ws_tcalls, dcalls, dwrites, dstart, ws_faults,
                 stop_acking, dext>>
  /\ UNCHANGED <<backendVars, pollVars>>

\* extend_ack_deadline, lines 212-213: message.modify_ack_deadline(600)
t_modify(d) ==
  /\ tpc[d] = "modify"
  /\ Len(dext[d]) < MaxExtends
  /\ dext' = [dext EXCEPT ![d] = Append(@, dack[d])]
  /\ tpc' = [tpc EXCEPT ![d] = "while"]
  /\ UNCHANGED <<ws_meta, ws_input, ws_output, processing_jobs, dpc, dmsg,
                 dexc, dack, ws_tcalls, dcalls, dwrites, dstart, ws_faults,
                 stop_acking>>
  /\ UNCHANGED <<backendVars, pollVars>>

(***************************************************************************)
(* worker-service/worker_local.py and annoteator-worker LocalWorker        *)
(***************************************************************************)
\* the job directories under LOCAL_JOBS_DIR
JobDirNames == WSJobIds

\* restarts of the poller process
MaxRestarts == 1

\* the counters of scans, visits, calls and writes stop counting here
MaxCount == 3

\* one more on a counter that counts up to MaxCount
Counted(n) == IF n < MaxCount THEN n + 1 ELSE n

\* a metadata.json that json.load rejects
CorruptMeta == Some([corrupt |-> TRUE])

\* a job directory: any descriptor, with or without input and output
DirStates(job_id) ==
  [meta : InitialMetas(job_id) \cup {CorruptMeta}, input : BOOLEAN,
   output : BOOLEAN]

\* json.load(f) of the descriptor raises
LoadRaises(job_id) == job_dirs[job_id].meta = CorruptMeta

EmptyDir == [meta |-> None, input |-> FALSE, output |-> FALSE]

\* no poller runs
PollIdle ==
  /\ poller = "none"
  /\ job_dirs = [j \in JobDirNames |-> EmptyDir]
  /\ processed_jobs = {}
  /\ ppc = "sleep"
  /\ scan_list = <<>>
  /\ pcur = None
  /\ pscans = 0
  /\ prestarts = 0
  /\ pvisits = [j \in JobDirNames |-> 0]
  /\ pcalls = [j \in JobDirNames |-> 0]
  /\ pwrites = [j \in JobDirNames |-> 0]

\* one of the two pollers starts on a jobs directory in any condition
InitPoll ==
  /\ poller \in {"worker_local", "annoteator"}
  /\ job_dirs \in
       {f \in [JobDirNames -> UNION {DirStates(j) : j \in JobDirNames}] :
          \A j \in JobDirNames : f[j] \in DirStates(j)}
  /\ processed_jobs = {}
  /\ ppc = "sleep"
  /\ scan_list = <<>>
  /\ pcur = None
  /\ pscans = 0
  /\ prestarts = 0
  /\ pvisits = [j \in JobDirNames |-> 0]
  /\ pcalls = [j \in JobDirNames |-> 0]
  /\ pwrites = [j \in JobDirNames |-> 0]

\* os.path.exists(metadata_path)
HasDescriptor(job_id) == job_dirs[job_id].meta # None

\* metadata.get("status")
DirStatus(job_id) ==
  IF HasDescriptor(job_id) /\ "status" \in DOMAIN job_dirs[job_id].meta[1]
  THEN job_dirs[job_id].meta[1].status ELSE ""

\* a poller that does not look for the output artifact
NeverAlreadyProcessed(job_id) == FALSE

\* os.path.exists(output_path): "already processed, skipping"
AlreadyProcessed(job_id) == job_dirs[job_id].output

\* a status test that leaves a job in mid-stage alone
NoResumableStatuses == {}

\* worker_local.process_job, line 44: the in-progress status it goes on with
ResumableStatuses == {"processing"}

\* a status test that lets a failed job through
ProcessableOrFailed == {"queued", "processing", "failed"}

\* worker_local.process_job, line 44: the statuses it goes on with
ProcessableStatuses == {"queued"} \cup ResumableStatuses

\* metadata[k] = v for the keys of upd, then json.dump(metadata, f)
WrittenMeta(job_id, upd) ==
  LET metadata == job_dirs[job_id].meta[1] IN
  Some([k \in DOMAIN metadata \cup DOMAIN upd |->
          IF k \in DOMAIN upd THEN upd[k] ELSE metadata[k]])

\* glob.glob(os.path.join(LOCAL_JOBS_DIR, "*")): the directories in any order
GlobOrders ==
  {s \in [1..Cardinality(JobDirNames) -> JobDirNames] :
     \A a \in DOMAIN s : \A b \in DOMAIN s : s[a] = s[b] => a = b}

\* the top of the polling loop of poller p: the directories are listed
Glob(p) ==
  /\ poller = p
  /\ ppc = "sleep"
  /\ \E order \in GlobOrders : scan_list' = order
  /\ ppc' = "for"
  /\ pscans' = Counted(pscans)
  /\ UNCHANGED <<poller, job_dirs, processed_jobs, pcur, prestarts, pvisits,
                 pcalls, pwrites>>
  /\ UNCHANGED <<backendVars, cloudVars>>

\* the for loop of poller p is over: time.sleep before the next poll
Sleep(p) ==
  /\ poller = p
  /\ ppc = "for"
  /\ scan_list = <<>>
  /\ ppc' = "sleep"
  /\ UNCHANGED <<poller, job_dirs, processed_jobs, scan_list, pcur, pscans,
                 prestarts, pvisits, pcalls, pwrites>>
  /\ UNCHANGED <<backendVars, cloudVars>>

\* worker_local.main, lines 112-115
wl_glob == Glob("worker_local")

\* worker_local.main, lines 117-133 with process_job, lines 26-71: one
\* directory of the scan, up to the call of annoteator.transcribe_audio
wl_visit ==
  /\ poller = "worker_local"
  /\ ppc = "for"
  /\ scan_list # <<>>
  /\ LET job_id == Head(scan_list) IN
     /\ pvisits' = [pvisits EXCEPT ![job_id] = Counted(@)]
     /\ IF \/ job_id \in processed_jobs
           \/ ~(HasDescriptor(job_id) /\ job_dirs[job_id].input)
        THEN /\ scan_list' = Tail(scan_list)
             /\ UNCHANGED <<job_dirs, processed_jobs, ppc, pcur, pcalls,
                            pwrites>>
        ELSE IF AlreadyProcessed(job_id)
        THEN /\ scan_list' = Tail(scan_list)
             /\ processed_jobs' = processed_jobs \cup {job_id}
             /\ UNCHANGED <<job_dirs, ppc, pcur, pcalls, pwrites>>
        ELSE IF LoadRaises(job_id)
        THEN \* lines 41-42 are outside the try block of process_job: the
             \* exception ends the for loop in main, lines 141-143
             /\ scan_list' = <<>>
             /\ ppc' = "sleep"
             /\ UNCHANGED <<job_dirs, processed_jobs, pcur, pcalls, pwrites>>
        ELSE IF DirStatus(job_id) \notin ProcessableStatuses
        THEN /\ scan_list' = Tail(scan_list)
             /\ processed_jobs' = processed_jobs \cup {job_id}
             /\ UNCHANGED <<job_dirs, ppc, pcur, pcalls, pwrites>>
        ELSE /\ scan_list' = Tail(scan_list)
             /\ job_dirs' = [job_dirs EXCEPT ![job_id].meta =
                  WrittenMeta(job_id, [status |-> "processing",
                                       progress |-> 30])]
             /\ pwrites' = [pwrites EXCEPT ![job_id] = Counted(Counted(@))]
             /\ pcalls' = [pcalls EXCEPT ![job_id] = Counted(@)]
             /\ ppc' = "transcribe_audio"
             /\ pcur' = Some(job_id)
             /\ UNCHANGED processed_jobs
  /\ UNCHANGED <<poller, pscans, prestarts>>
  /\ UNCHANGED <<backendVars, cloudVars>>

\* str(e) of an exception raised by the transcription
TranscribeErrors == {"Transcription failed"}

\* str(e) of shutil.SameFileError: transcribe_audio(output_name="output") of
\* AnNOTEatorService(output_dir=job_dir) returns job_dir/output.musicxml,
\* which is output_path itself
SameFileError == "'output.musicxml' and 'output.musicxml' are the same file"

\* worker_local.process_job, lines 71-103: transcribe_audio ends; process_job
\* returns and main adds the id to processed_jobs
wl_transcribe_ends ==
  /\ poller = "worker_local"
  /\ ppc = "transcribe_audio"
  /\ LET job_id == pcur[1] IN
     /\ \/ \E e \in TranscribeErrors :
             /\ job_dirs' = [job_dirs EXCEPT ![job_id].meta =
                  WrittenMeta(job_id, [status |-> "failed", error |-> e])]
             /\ pwrites' = [pwrites EXCEPT ![job_id] = Counted(@)]
        \/ /\ job_dirs' = [job_dirs EXCEPT
                  ![job_id].output = TRUE,
                  ![job_id].meta =
                    WrittenMeta(job_id, [progress |-> 90, status |-> "failed",
                                         error |-> SameFileError])]
           /\ pwrites' = [pwrites EXCEPT ![job_id] = Counted(Counted(@))]
     /\ processed_jobs' = processed_jobs \cup {job_id}
  /\ ppc' = "for"
  /\ pcur' = None
  /\ UNCHANGED <<poller, scan_list, pscans, prestarts, pvisits, pcalls>>
  /\ UNCHANGED <<backendVars, cloudVars>>

\* worker_local.main, line 136
wl_sleep == Sleep("worker_local")

\* LocalWorker.run_forever, lines 358-359
aw_glob == Glob("annoteator")

\* LocalWorker.run_forever, lines 360-363 with process_job_dir, lines
\* 299-333: one directory of the scan, up to the call of run_transcription
aw_visit ==
  /\ poller = "annoteator"
  /\ ppc = "for"
  /\ scan_list # <<>>
  /\ LET job_id == Head(scan_list) IN
     /\ scan_list' = Tail(scan_list)
     /\ pvisits' = [pvisits EXCEPT ![job_id] = Counted(@)]
     /\ IF \/ ~HasDescriptor(job_id)
           \/ AlreadyProcessed(job_id)
           \/ LoadRaises(job_id)
           \/ DirStatus(job_id) = "completed"
        THEN UNCHANGED <<job_dirs, ppc, pcur, pcalls, pwrites>>
        ELSE /\ job_dirs' = [job_dirs EXCEPT ![job_id].meta =
                  WrittenMeta(job_id, [progress |-> 30])]
             /\ pwrites' = [pwrites EXCEPT ![job_id] = Counted(@)]
             /\ pcalls' = [pcalls EXCEPT ![job_id] = Counted(@)]
             /\ ppc' = "run_transcription"
             /\ pcur' = Some(job_id)
  /\ UNCHANGED <<poller, processed_jobs, pscans, prestarts>>
  /\ UNCHANGED <<backendVars, cloudVars>>

\* process_job_dir, lines 333-343: run_transcription ends. It returns only
\* when the input exists (os.path.getsize raises otherwise); an exception
\* leaves process_job_dir and is logged by run_forever, lines 364-365
aw_transcribe_ends ==
  /\ poller = "annoteator"
  /\ ppc = "run_transcription"
  /\ LET job_id == pcur[1] IN
     \/ /\ job_dirs[job_id].input
        /\ job_dirs' = [job_dirs EXCEPT
               ![job_id].output = TRUE,
               ![job_id].meta =
                 WrittenMeta(job_id, [status |-> "completed",
                                      progress |-> 100])]
        /\ pwrites' = [pwrites EXCEPT ![job_id] = Counted(@)]
     \/ UNCHANGED <<job_dirs, pwrites>>
  /\ ppc' = "for"
  /\ pcur' = None
  /\ UNCHANGED <<poller, processed_jobs, scan_list, pscans, prestarts,
                 pvisits, pcalls>>
  /\ UNCHANGED <<backendVars, cloudVars>>

\* LocalWorker.run_forever, line 366
aw_sleep == Sleep("annoteator")

\* the poller process is stopped, at any point, and started again: what it
\* held in memory is lost, the files stay as they are
restart ==
  /\ poller # "none"
  /\ pscans > 0
  /\ prestarts < MaxRestarts
  /\ prestarts' = prestarts + 1
  /\ processed_jobs' = {}
  /\ ppc' = "sleep"
  /\ scan_list' = <<>>
  /\ pcur' = None
  /\ pscans' = 0
  /\ UNCHANGED <<poller, job_dirs, pvisits, pcalls, pwrites>>
  /\ UNCHANGED <<backendVars, cloudVars>>

(***************************************************************************)
(* api-service/main.py: transcribe                                         *)
(***************************************************************************)
\* POST /api/v1/transcribe requests
MaxRequests == 2

Requests == 1..MaxRequests

\* api-service has received no request
ApiIdle ==
  /\ apc = [r \in Requests |-> "idle"]
  /\ ajob = [r \in Requests |-> None]
  /\ published = {}
  /\ partial_input = {}

\* settings.use_cloud_storage of api-service: the deployment has a bucket
\* and a topic, or a jobs directory that one of the pollers scans
ApiUsesCloud == poller = "none"

\* job ids that uuid4 has returned
ApiIssued == {ajob[r][1] : r \in {q \in Requests : ajob[q] # None}}

AJob(r) == ajob[r][1]

\* transcribe raises: the request ends with HTTP 500
ApiRaises(r) == apc' = [apc EXCEPT ![r] = "error"]

\* transcribe, lines 107-121: the request is authorized, job_id and job_data
\* are made
api_begin(r) ==
  /\ apc[r] = "idle"
  /\ \E job_id \in WSJobIds \ ApiIssued :
       ajob' = [ajob EXCEPT ![r] = Some(job_id)]
  /\ apc' = [apc EXCEPT ![r] =
       IF ApiUsesCloud THEN "upload_input" ELSE "open_input"]
  /\ UNCHANGED <<published, partial_input>>
  /\ UNCHANGED <<storeVars, histVars, workerVars, initialized, cleanup_after,
                 uploads, now, issued, jobs, processing_queue, putters,
                 workers_started, spawned>>
  /\ UNCHANGED <<cloudVars, pollVars>>

\* a transcribe that publishes as soon as the input is uploaded
ApiPublishesAfterInput == "publish"

\* transcribe, lines 129-130: after the input upload comes the descriptor
ApiAfterInput == "upload_meta"

\* transcribe, lines 125-126: audio_blob.upload_from_file
api_upload_input(r) ==
  /\ apc[r] = "upload_input"
  /\ \/ /\ ws_input' = ws_input \cup {AJob(r)}
        /\ apc' = [apc EXCEPT ![r] = ApiAfterInput]
     \/ /\ ApiRaises(r)
        /\ UNCHANGED ws_input
  /\ UNCHANGED <<ajob, published, partial_input>>
  /\ UNCHANGED <<storeVars, histVars, workerVars, initialized, cleanup_after,
                 uploads, now, issued, jobs, processing_queue, putters,
                 workers_started, spawned>>
  /\ UNCHANGED <<ws_meta, ws_output, processing_jobs, dpc, dmsg, dexc, dack,
                 ws_tcalls, dcalls, dwrites, dstart, ws_faults, timerVars>>
  /\ UNCHANGED pollVars

\* transcribe, lines 129-130: job_blob.upload_from_string(job_data)
api_upload_meta(r) ==
  /\ apc[r] = "upload_meta"
  /\ \/ /\ ws_meta' = [ws_meta EXCEPT ![AJob(r)] = Some(QueuedMeta(AJob(r)))]
        /\ apc' = [apc EXCEPT ![r] = "publish"]
     \/ /\ ApiRaises(r)
        /\ UNCHANGED ws_meta
  /\ UNCHANGED <<ajob, published, partial_input>>
  /\ UNCHANGED <<storeVars, histVars, workerVars, initialized, cleanup_after,
                 uploads, now, issued, jobs, processing_queue, putters,
                 workers_started, spawned>>
  /\ UNCHANGED <<ws_input, ws_output, processing_jobs, dpc, dmsg, dexc, dack,
                 ws_tcalls, dcalls, dwrites, dstart, ws_faults, timerVars>>
  /\ UNCHANGED pollVars

\* transcribe, lines 133-135: publisher.publish and future.result(), which
\* may raise with or without the message on the topic
api_publish(r) ==
  /\ apc[r] = "publish"
  /\ \/ /\ published' = published \cup {AJob(r)}
        /\ apc' = [apc EXCEPT ![r] = "done"]
     \/ /\ published' \in {published, published \cup {AJob(r)}}
        /\ ApiRaises(r)
  /\ UNCHANGED <<ajob, partial_input>>
  /\ UNCHANGED <<storeVars, histVars, workerVars, initialized, cleanup_after,
                 uploads, now, issued, jobs, processing_queue, putters,
                 workers_started, spawned>>
  /\ UNCHANGED <<cloudVars, pollVars>>

\* a step of transcribe in local mode that changes the job directory
ApiWritesDir(r, dir, partial, pc) ==
  /\ job_dirs' = [job_dirs EXCEPT ![AJob(r)] = dir]
  /\ partial_input' = partial
  /\ apc' = [apc EXCEPT ![r] = pc]
  /\ UNCHANGED <<ajob, published>>
  /\ UNCHANGED <<storeVars, histVars, workerVars, initialized, cleanup_after,
                 uploads, now, issued, jobs, processing_queue, putters,
                 workers_started, spawned>>
  /\ UNCHANGED <<poller, processed_jobs, ppc, scan_list, pcur, pscans,
                 prestarts, pvisits, pcalls, pwrites>>
  /\ UNCHANGED cloudVars

\* transcribe, lines 140-145: os.makedirs, open(audio_path, "wb"): the file
\* exists and is empty; await file.read()
api_open_input(r) ==
  /\ apc[r] = "open_input"
  /\ ApiWritesDir(r, [job_dirs[AJob(r)] EXCEPT !.input = TRUE],
                  partial_input \cup {AJob(r)}, "write_input")

\* transcribe, lines 145-146: f.write(...) and the file is closed, or the
\* write raises and leaves what it has written
api_write_input(r) ==
  /\ apc[r] = "write_input"
  /\ \/ ApiWritesDir(r, job_dirs[AJob(r)], partial_input \ {AJob(r)},
                     "open_meta")
     \/ ApiWritesDir(r, job_dirs[AJob(r)], partial_input, "error")

\* transcribe, line 149: open(metadata.json, "w"): the file exists and is
\* empty
api_open_meta(r) ==
  /\ apc[r] = "open_meta"
  /\ ApiWritesDir(r, [job_dirs[AJob(r)] EXCEPT !.meta = CorruptMeta],
                  partial_input, "dump_meta")

\* transcribe, lines 149-150: json.dump(job_data, f) and the file is closed,
\* or the write raises
api_dump_meta(r) ==
  /\ apc[r] = "dump_meta"
  /\ \/ ApiWritesDir(r, [job_dirs[AJob(r)] EXCEPT
                           !.meta = Some(QueuedMeta(AJob(r)))],
                     partial_input, "done")
     \/ ApiWritesDir(r, job_dirs[AJob(r)], partial_input, "error")

\* the broker delivers a message that api-service published
deliver_published(d) ==
  \E job_id \in published : deliver(d, [kind |-> "valid", job_id |-> job_id])

(***************************************************************************)
(* Specifications                                                          *)
(***************************************************************************)
vars ==
  <<initialized, cleanup_after, use_cloud_storage, localFiles, gcsBlobs,
    uploads, now, issued, jobs, processing_queue, putters, workers_started,
    spawned, wpc, wjob, trace, lastSave, ioBudget, workerLog, ws_meta,
    ws_input, ws_output, processing_jobs, dpc, dmsg, dexc, dack, ws_tcalls,
    dcalls, dwrites, dstart, ws_faults, tpc, stop_acking, dext, poller,
    job_dirs, processed_jobs, ppc, scan_list, pcur, pscans, prestarts,
    pvisits, pcalls, pwrites, apc, ajob, published, partial_input>>

\* no worker-service process runs
CloudIdle ==
  /\ ws_meta = [j \in WSJobIds |-> None]
  /\ ws_input = {}
  /\ ws_output = {}
  /\ processing_jobs = {}
  /\ dpc = [d \in Deliveries |-> "idle"]
  /\ dmsg = [d \in Deliveries |-> None]
  /\ dexc = [d \in Deliveries |-> None]
  /\ dack = [d \in Deliveries |-> "none"]
  /\ ws_tcalls = [j \in WSJobIds |-> 0]
  /\ dcalls = [d \in Deliveries |-> 0]
  /\ dwrites = [d \in Deliveries |-> 0]
  /\ dstart = [d \in Deliveries |-> None]
  /\ ws_faults = 0
  /\ tpc = [d \in Deliveries |-> "off"]
  /\ stop_acking = [d \in Deliveries |-> FALSE]
  /\ dext = [d \in Deliveries |-> <<>>]

\* neither the subscriber nor a poller runs
WSIdle == CloudIdle /\ PollIdle /\ ApiIdle

\* the backend with its default storage backend (USE_CLOUD_STORAGE = False)
\* and storage and disk operations that do not fail
Init ==
  /\ InitBackend
  /\ use_cloud_storage = FALSE
  /\ ioBudget = 0
  /\ WSIdle

Next ==
  \/ start_workers
  \/ \E filename \in Filenames : create_job(filename)
  \/ \E job_id \in JobIds : put_resume(job_id)
  \/ \E w \in Workers : worker_get(w)
  \/ \E w \in Workers : await_separate_drums(w)
  \/ \E w \in Workers : await_transcribe_drums(w)
  \/ \E w \in Workers : await_midi_to_musicxml(w)

Spec == Init /\ [][Next]_vars

\* worker w is resumable: an id is there for its get(), or the collaborator it
\* awaits returns or raises
WorkerCanRun(w) ==
  \/ wpc[w] = "get" /\ processing_queue # <<>>
  \/ wpc[w] \in {"await_separate_drums", "await_transcribe_drums",
                 "await_midi_to_musicxml"}

\* worker w took a step: it dequeued an id or left an await
WorkerRan(w) == wpc'[w] # wpc[w] \/ workerLog'[w] # workerLog[w]

\* weak fairness of the steps of worker w, with WorkerCanRun(w) for
\* ENABLED <<worker_get(w) \/ await_...(w)>>_vars
WorkerFair(w) == []<>(~WorkerCanRun(w)) \/ []<><<WorkerRan(w)>>_vars

\* the event loop runs every task that can run: the startup hook calls
\* start_workers, a worker suspended in get() resumes when the queue holds an
\* id, a put() suspended on a full queue resumes when there is room, and
\* every awaited collaborator call returns or raises
Fairness ==
  /\ WF_vars(start_workers)
  /\ WF_vars(\E job_id \in JobIds : put_resume(job_id))
  /\ \A w \in Workers : WorkerFair(w)

SpecFair == Spec /\ Fairness

\* one upload with either storage backend, a running clock and failing I/O
InitJob ==
  /\ InitBackend
  /\ use_cloud_storage \in BOOLEAN
  /\ ioBudget = MaxIOFaults
  /\ WSIdle

\* time passes between two steps of the event loop
tick ==
  /\ now < MaxClock
  /\ now' = now + 1
  /\ UNCHANGED <<initialized, cleanup_after, storeVars, uploads, issued, jobs,
                 processing_queue, putters, workers_started, spawned,
                 workerVars, histVars>>
  /\ UNCHANGED wsVars

\* a single upload
upload_one(filename) ==
  /\ issued = 0
  /\ create_job(filename)

NextJob ==
  \/ start_workers
  \/ \E filename \in Filenames : upload_one(filename)
  \/ \E w \in Workers : worker_get(w)
  \/ \E w \in Workers : await_separate_drums(w)
  \/ \E w \in Workers : await_transcribe_drums(w)
  \/ \E w \in Workers : await_midi_to_musicxml(w)
  \/ tick

SpecJob == InitJob /\ [][NextJob]_vars

\* the backend as constructed and never used
BackendIdle ==
  /\ InitBackend
  /\ initialized = TRUE
  /\ cleanup_after = TRUE
  /\ use_cloud_storage = FALSE
  /\ ioBudget = 0

InitWSSpec ==
  /\ BackendIdle
  /\ PollIdle
  /\ ApiIdle
  /\ InitWS
  /\ ws_faults = 0

NextWS ==
  \/ \E d \in Deliveries, payload \in Payloads : deliver(d, payload)
  \/ \E d \in Deliveries : cb_decode(d)
  \/ \E d \in Deliveries : pj_dedup(d)
  \/ \E d \in Deliveries : pj_check(d)
  \/ \E d \in Deliveries : pj_mark10(d)
  \/ \E d \in Deliveries : pj_input(d)
  \/ \E d \in Deliveries : pj_mark30(d)
  \/ \E d \in Deliveries : pj_mark30b(d)
  \/ \E d \in Deliveries : pj_transcribe(d)
  \/ \E d \in Deliveries : pj_mark90(d)
  \/ \E d \in Deliveries : pj_upload(d)
  \/ \E d \in Deliveries : pj_mark100(d)
  \/ \E d \in Deliveries : pj_leave_tmp(d)
  \/ \E d \in Deliveries : pj_ws_except(d)
  \/ \E d \in Deliveries : pj_finally(d)
  \/ \E d \in Deliveries : cb_stop(d)
  \/ \E d \in Deliveries : cb_ack(d)

\* worker-service with jobs that take less than the 300 s the extender
\* threads sleep
SpecWS == InitWSSpec /\ [][NextWS]_vars

\* what the callback thread of delivery d does
Handles(d) ==
  \/ cb_decode(d)
  \/ pj_dedup(d)
  \/ pj_check(d)
  \/ pj_mark10(d)
  \/ pj_input(d)
  \/ pj_mark30(d)
  \/ pj_mark30b(d)
  \/ pj_transcribe(d)
  \/ pj_mark90(d)
  \/ pj_upload(d)
  \/ pj_mark100(d)
  \/ pj_leave_tmp(d)
  \/ pj_ws_except(d)
  \/ pj_finally(d)
  \/ cb_stop(d)
  \/ cb_ack(d)

\* a worker died in the middle of a job and left its descriptor in status
\* processing; a new worker process starts
InitRedeliver ==
  /\ InitWSSpec
  /\ \E j \in WSJobIds : MetaStatus(j) = "processing" /\ j \in ws_input
  /\ \A j \in WSJobIds : MetaStatus(j) \in {"", "queued", "processing"}

\* the new process with its callback threads running: the calls they make
\* return or raise
SpecRedeliver ==
  /\ InitRedeliver
  /\ [][NextWS]_vars
  /\ \A d \in Deliveries : WF_vars(Handles(d))

\* queued jobs whose input exists, bucket operations that do not fail
InitAck ==
  /\ BackendIdle
  /\ PollIdle
  /\ ApiIdle
  /\ InitWS
  /\ ws_faults = MaxIOFaults
  /\ ws_meta = [j \in WSJobIds |-> Some(QueuedMeta(j))]
  /\ ws_input = WSJobIds

NextAck ==
  \/ NextWS
  \/ \E d \in Deliveries : t_while(d)
  \/ \E d \in Deliveries : t_if(d)
  \/ \E d \in Deliveries : t_modify(d)

\* worker-service with the extend_ack_deadline threads running
SpecAck == InitAck /\ [][NextAck]_vars

\* the backend has done nothing yet
BackendQuiet == issued = 0 /\ ~workers_started /\ now = 0

\* the backend and worker-service are separate programs over separate
\* stores: a run is a run of one of them
InitPipeline == InitJob \/ InitWSSpec

NextPipeline ==
  \/ CloudIdle /\ NextJob
  \/ BackendQuiet /\ NextWS

\* the backend with one upload, or worker-service with its deliveries
SpecPipeline == InitPipeline /\ [][NextPipeline]_vars

InitPollSpec ==
  /\ BackendIdle
  /\ CloudIdle
  /\ ApiIdle
  /\ InitPoll

NextPoll ==
  \/ wl_glob
  \/ wl_visit
  \/ wl_transcribe_ends
  \/ wl_sleep
  \/ aw_glob
  \/ aw_visit
  \/ aw_transcribe_ends
  \/ aw_sleep
  \/ restart

\* the deliveries are handled by worker-service
ByWorkerService == \A d \in Deliveries : dpc[d] \notin CwLabels

\* the deliveries are handled by annoteator-worker
ByAnnoteator ==
  \A d \in Deliveries : dpc[d] \in CwLabels \cup {"idle", "callback"}

\* what the callback thread of annoteator-worker does for delivery d
CwHandles(d) ==
  \/ cw_callback(d)
  \/ cj_download(d)
  \/ cj_load(d)
  \/ cj_transcribe(d)
  \/ cj_upload(d)
  \/ cj_complete(d)
  \/ cw_ack(d)

NextCloudWorker ==
  \/ \E d \in Deliveries, payload \in Payloads : deliver(d, payload)
  \/ \E d \in Deliveries : CwHandles(d)

\* a bucket or a jobs directory
InitWorkers == InitWSSpec \/ InitPollSpec

\* one of the workers over it: worker-service or annoteator-worker on the
\* subscription, worker_local or annoteator-worker on the jobs directory
NextWorkers ==
  \/ PollIdle /\ ByWorkerService /\ NextWS
  \/ PollIdle /\ ByAnnoteator /\ NextCloudWorker
  \/ NextPoll

\* every worker that produces output artifacts
SpecWorkers == InitWorkers /\ [][NextWorkers]_vars

\* an empty bucket and topic with one of the subscribers, or an empty jobs
\* directory with one of the pollers
InitSubmit ==
  /\ BackendIdle
  /\ CloudIdle
  /\ ApiIdle
  /\ poller \in {"none", "worker_local", "annoteator"}
  /\ job_dirs = [j \in JobDirNames |-> EmptyDir]
  /\ processed_jobs = {}
  /\ ppc = "sleep"
  /\ scan_list = <<>>
  /\ pcur = None
  /\ pscans = 0
  /\ prestarts = 0
  /\ pvisits = [j \in JobDirNames |-> 0]
  /\ pcalls = [j \in JobDirNames |-> 0]
  /\ pwrites = [j \in JobDirNames |-> 0]

\* api-service takes uploads, and the worker of the deployment processes
\* what api-service submitted
NextSubmit ==
  \/ \E r \in Requests : api_begin(r)
  \/ \E r \in Requests : api_upload_input(r)
  \/ \E r \in Requests : api_upload_meta(r)
  \/ \E r \in Requests : api_publish(r)
  \/ \E r \in Requests : api_open_input(r)
  \/ \E r \in Requests : api_write_input(r)
  \/ \E r \in Requests : api_open_meta(r)
  \/ \E r \in Requests : api_dump_meta(r)
  \/ \E d \in Deliveries : deliver_published(d)
  \/ ByWorkerService /\ \E d \in Deliveries : Handles(d)
  \/ ByAnnoteator /\ \E d \in Deliveries : CwHandles(d)
  \/ NextPoll

\* api-service with the worker behind it
SpecSubmit == InitSubmit /\ [][NextSubmit]_vars

\* one of the two pollers over a jobs directory
SpecPoll == InitPollSpec /\ [][NextPoll]_vars

\* a step of the poller process itself
PollSteps ==
  \/ wl_glob
  \/ wl_visit
  \/ wl_transcribe_ends
  \/ wl_sleep
  \/ aw_glob
  \/ aw_visit
  \/ aw_transcribe_ends
  \/ aw_sleep

\* the poller process is a running loop: it takes its next step whenever it
\* has one, and the collaborator returns or raises
SpecPollFair == SpecPoll /\ WF_vars(PollSteps)

(***************************************************************************)
(* Properties                                                              *)
(***************************************************************************)
\* the save_job calls made for a job, in order
Saves(j) == SelectSeq(trace[j], LAMBDA e : e.ev = "save")

\* the collaborator calls made for a job, in order
Calls(j) == SelectSeq(trace[j], LAMBDA e : e.ev = "call")

\* the status of the persisted record of a job ("" when none can be read)
PersistedStatus(j) ==
  IF load_job(j) = None THEN "" ELSE from_dict(load_job(j)[1]).status

\* the stored object of a job in the backend in use
StoredObject(j) == IF use_cloud_storage THEN gcsBlobs[j] ELSE localFiles[j]

AllowedTransitions ==
  {<<"PENDING", "SEPARATING">>, <<"SEPARATING", "TRANSCRIBING">>,
   <<"TRANSCRIBING", "GENERATING_SHEET">>, <<"GENERATING_SHEET", "COMPLETED">>}
    \cup {<<s, "FAILED">> : s \in {"PENDING", "SEPARATING", "TRANSCRIBING",
                                   "GENERATING_SHEET"}}

\* C1, per step: every change of a job's status (each one is saved, so the
\* saves list them) is an allowed transition, a terminal in-memory status
\* stays, and a persisted record with a terminal status is not rewritten
C1_Step ==
  \A j \in JobIds :
    /\ \A i \in 1..(Len(Saves(j)') - 1) :
         \/ Saves(j)'[i].status = Saves(j)'[i + 1].status
         \/ <<Saves(j)'[i].status, Saves(j)'[i + 1].status>>
              \in AllowedTransitions
    /\ j \in DOMAIN jobs =>
         /\ jobs[j].status # jobs'[j].status =>
              <<jobs[j].status, jobs'[j].status>> \in AllowedTransitions
         /\ jobs[j].status \in TerminalStatuses =>
              jobs'[j].status = jobs[j].status
    /\ PersistedStatus(j) \in TerminalStatuses =>
         StoredObject(j)' = StoredObject(j)

\* C1: status changes of a job follow the state machine, and Completed and
\* Failed are final in memory and in the persisted record
C1_StatusTransitions == [][C1_Step]_vars

\* a job went through every stage and is Completed in memory and on disk
C1_Witness ==
  \E j \in DOMAIN jobs :
    /\ jobs[j].status = "COMPLETED"
    /\ PersistedStatus(j) = "COMPLETED"
    /\ Len(Calls(j)) = 3

InFlightJobs ==
  {j \in DOMAIN jobs :
     jobs[j].status \notin {"PENDING", "COMPLETED", "FAILED"}}

\* C2: at most MAX_CONCURRENT_JOBS jobs are at once in a status other than
\* Pending, Completed or Failed, however often start_workers is called
C2_BoundedConcurrency == Cardinality(InFlightJobs) <= MAX_CONCURRENT_JOBS

\* N + 1 jobs were created, N of them are being processed, one is Pending
C2_Witness ==
  /\ issued = MAX_CONCURRENT_JOBS + 1
  /\ Cardinality(InFlightJobs) = MAX_CONCURRENT_JOBS
  /\ \E j \in DOMAIN jobs : jobs[j].status = "PENDING"

\* progress is in range and is 100 exactly for a Completed job
ProgressOK(status, progress) ==
  /\ progress \in 0..100
  /\ progress = 100 <=> status = "COMPLETED"

\* C5: over all updates _process_job makes to a job, progress never
\* decreases, stays within 0..100 and is 100 iff the status is Completed
C5_ProgressMonotone ==
  \A j \in JobIds :
    /\ \A i \in 1..Len(Saves(j)) :
         /\ ProgressOK(Saves(j)[i].status, Saves(j)[i].progress)
         /\ i > 1 => Saves(j)[i - 1].progress <= Saves(j)[i].progress
    /\ j \in DOMAIN jobs =>
         /\ ProgressOK(jobs[j].status, jobs[j].progress)
         /\ Saves(j) # <<>> =>
              jobs[j].progress = Saves(j)[Len(Saves(j))].progress

\* a job failed in stage 3 and kept the progress of that stage
C5_Witness ==
  \E j \in DOMAIN jobs :
    /\ jobs[j].status = "FAILED"
    /\ jobs[j].progress = 80

\* the progress persisted right before each collaborator is called
ProgressBefore ==
  [separate_drums |-> 10, transcribe_drums |-> 50, midi_to_musicxml |-> 80]

\* the job failed because its last collaborator call raised
FailedInStage(j) ==
  /\ j \in DOMAIN jobs
  /\ jobs[j].status = "FAILED"
  /\ Calls(j) # <<>>

\* C6 without its clause on the error text: a raising collaborator leaves
\* the job Failed at the progress saved before the call, without a result,
\* and the call that raised is the last event but the save of the failure
C6_FailureShape ==
  \A j \in JobIds :
    FailedInStage(j) =>
      LET t == SelectSeq(trace[j], LAMBDA e : e.ev # "remove")
          n == Len(t)
      IN
      /\ jobs[j].progress = ProgressBefore[Calls(j)[Len(Calls(j))].what]
      /\ jobs[j].result = None
      /\ jobs[j].error # None
      /\ t[n].ev = "save" /\ t[n].status = "FAILED"
      /\ t[n - 1].ev = "call"

\* C6: a raising collaborator leaves the job Failed at the progress saved
\* before the call, with a non-empty error, no result and no later call
C6_CollaboratorFailure ==
  /\ C6_FailureShape
  /\ \A j \in JobIds : FailedInStage(j) => jobs[j].error # Some("")

\* result and error of a job in a given status
ResultErrorOK(status, hasResult, error) ==
  /\ hasResult => status = "COMPLETED"
  /\ error # None => status = "FAILED"
  /\ status \in TerminalStatuses => (hasResult <=> error = None)

\* C7: result is present only if Completed, error only if Failed, and a
\* terminal job has exactly one of them; in memory, in every record handed
\* to save_job and in every persisted record
C7_ResultXorError ==
  \A j \in JobIds :
    /\ j \in DOMAIN jobs =>
         ResultErrorOK(jobs[j].status, jobs[j].result # None, jobs[j].error)
    /\ \A i \in 1..Len(Saves(j)) :
         ResultErrorOK(Saves(j)[i].status, Saves(j)[i].result,
                       Saves(j)[i].error)
    /\ load_job(j) # None =>
         LET job == from_dict(load_job(j)[1]) IN
           ResultErrorOK(job.status, job.result # None, job.error)

\* a job is Completed with a result and without an error
C7_Witness ==
  \E j \in DOMAIN jobs :
    /\ jobs[j].status = "COMPLETED"
    /\ jobs[j].result # None
    /\ jobs[j].error = None

\* C8: once a save made by _process_job returned False, no collaborator is
\* invoked for that job any more
C8_NoAdvanceAfterFailedSave ==
  \A j \in JobIds :
    \A i \in 1..Len(trace[j]) :
      (trace[j][i].ev = "save" /\ trace[j][i].what = "_process_job"
         /\ ~trace[j][i].ok) =>
        \A k \in (i + 1)..Len(trace[j]) : trace[j][k].ev # "call"

\* the fields of a job that from_dict has to reconstruct
SameJob(a, b) ==
  /\ a.job_id = b.job_id
  /\ a.filename = b.filename
  /\ a.file_path = b.file_path
  /\ a.status = b.status
  /\ a.progress = b.progress
  /\ a.message = b.message
  /\ a.created_at = b.created_at
  /\ a.result = b.result
  /\ a.error = b.error

\* the record r of the last save_job call for job j, as save_job stamped it
LastRecord(j) ==
  [to_dict(jobs[j]) EXCEPT
     !.updated_at = PyStr(isoformat(DatetimeAt(lastSave[j][1].at)))]

\* C9: after a successful save_job with no later write, load_job returns the
\* saved record field for field, on either backend, and from_dict of it
\* reconstructs the saved job
C9_RoundTrip ==
  \A j \in DOMAIN jobs :
    (lastSave[j] # None /\ lastSave[j][1].ok) =>
      /\ load_job(j) = Some(LastRecord(j))
      /\ SameJob(from_dict(load_job(j)[1]), jobs[j])

\* a Completed job created at a time with microseconds was saved and is read
\* back
C9_Witness ==
  \E j \in DOMAIN jobs :
    /\ lastSave[j] # None /\ lastSave[j][1].ok
    /\ jobs[j].status = "COMPLETED"
    /\ jobs[j].created_at.micro # 0
    /\ load_job(j) # None

\* C10: no exception raised while a job is processed ends a worker task:
\* every worker stays in its loop, and every job a worker is done with
\* (each but the one it is suspended in) is Completed or Failed
C10_WorkerSurvives ==
  \A w \in Workers :
    /\ wpc[w] \in {"none", "get", "await_separate_drums",
                   "await_transcribe_drums", "await_midi_to_musicxml"}
    /\ \A i \in 1..Len(workerLog[w]) :
         (i < Len(workerLog[w]) \/ wpc[w] = "get") =>
           jobs[workerLog[w][i]].status \in TerminalStatuses

\* a worker whose first job failed in a collaborator took the next id
C10_Witness ==
  \E w \in Workers :
    /\ Len(workerLog[w]) >= 2
    /\ FailedInStage(workerLog[w][1])
    /\ jobs[workerLog[w][2]].status # "PENDING"

\* d2 was delivered, with the same job_id, while d1 was being handled
Overlapping(d1, d2) ==
  /\ d1 # d2
  /\ dstart[d1] # None /\ dstart[d2] # None
  /\ d1 \in dstart[d2][1].overlap

\* d1 and d2 are the only deliveries made for their job_id
OnlyTwo(d1, d2) ==
  \A d \in Deliveries \ {d1, d2} :
    dmsg[d] = None \/ dmsg[d][1].kind # "valid" \/ DJob(d) # DJob(d1)

\* both deliveries have been handled to the end
BothDone(d1, d2) == dpc[d1] = "done" /\ dpc[d2] = "done"

\* C3 as stated: two overlapping deliveries of one payload lead to exactly
\* one invocation of transcribe_audio
C3_ExactlyOnce ==
  \A d1, d2 \in Deliveries :
    (Overlapping(d1, d2) /\ BothDone(d1, d2)) =>
      dcalls[d1] + dcalls[d2] = 1

\* C3, the upper half only: two overlapping deliveries of one payload never
\* lead to a second invocation of transcribe_audio
C3_NoSecondInvocation ==
  \A d1, d2 \in Deliveries :
    Overlapping(d1, d2) => dcalls[d1] + dcalls[d2] <= 1

\* when d1 was delivered, its job was neither completed nor failed and its
\* input object existed
Processable(d1) ==
  /\ dstart[d1][1].status \notin {"completed", "failed"}
  /\ dstart[d1][1].input

\* C3 while no bucket operation has raised: two overlapping deliveries of one
\* payload never lead to more than one invocation of transcribe_audio; when
\* they are the only deliveries for the job and both are handled, it was
\* invoked once if the job was not yet completed or failed and its input
\* existed, and not at all otherwise
C3_AtMostOnce ==
  \A d1, d2 \in Deliveries :
    (Overlapping(d1, d2) /\ ws_faults = 0) =>
      /\ dcalls[d1] + dcalls[d2] <= 1
      /\ (BothDone(d1, d2) /\ OnlyTwo(d1, d2)) =>
           dcalls[d1] + dcalls[d2] = IF Processable(d1) THEN 1 ELSE 0

\* C4: a delivery whose job descriptor is completed or failed invokes no
\* collaborator, writes nothing to the bucket and is acknowledged
C4_TerminalSkipped ==
  \A d \in Deliveries :
    (dstart[d] # None /\ dstart[d][1].terminal) =>
      /\ dcalls[d] = 0
      /\ dwrites[d] = 0
      /\ dack[d] # "nacked"
      /\ dpc[d] = "done" => dack[d] = "acked"

\* the ids in the processing queue
Queued == {processing_queue[i] : i \in 1..Len(processing_queue)}

\* the ids some worker has dequeued
Dequeued ==
  UNION {{workerLog[w][i] : i \in 1..Len(workerLog[w])} : w \in Workers}

\* C11, per step: a create_job waiting in put() enters the queue only when
\* the queue has room, and only a put or a create_job adds to the queue
C11_Step ==
  \A j \in putters :
    j \notin putters' =>
      /\ ~QueueFull
      /\ processing_queue' = Append(processing_queue, j)

\* C11, in every state: the queue holds at most MAX_CONCURRENT_JOBS ids, and
\* the job of a create_job that waits in put() is neither queued nor taken by
\* a worker nor lost: get_job_status returns it with status Pending and
\* progress 0
C11_State ==
  /\ Len(processing_queue) <= MAX_CONCURRENT_JOBS
  /\ \A j \in putters :
       /\ j \notin Queued
       /\ j \notin Dequeued
       /\ get_job_status(j) # None
       /\ get_job_status(j)[1].status = "PENDING"
       /\ get_job_status(j)[1].progress = 0

\* C11: the queue is bounded by N and a create_job on a full queue blocks,
\* with its job stored as Pending/0, until there is room
C11_Backpressure == [][C11_State' /\ C11_Step]_vars

\* a create_job waits on a full queue
C11_Witness ==
  /\ putters # {}
  /\ Len(processing_queue) = MAX_CONCURRENT_JOBS

\* the saves of a job that record a terminal status
TerminalSaves(j) ==
  SelectSeq(trace[j], LAMBDA e : e.ev = "save" /\ e.status \in TerminalStatuses)

\* the job exists and is Completed or Failed
IsTerminal(j) == j \in DOMAIN jobs /\ jobs[j].status \in TerminalStatuses

\* C12: with the workers started and collaborators that return or raise,
\* every created job eventually is Completed or Failed, and it enters a
\* terminal status only once
C12_EventuallyTerminal ==
  /\ \A j \in JobIds : (j \in DOMAIN jobs) ~> IsTerminal(j)
  /\ [](\A j \in JobIds : Len(TerminalSaves(j)) <= 1)

\* all uploads of a run ended, one Completed and one Failed among them
C12_Witness ==
  /\ issued = MaxJobs
  /\ \A j \in DOMAIN jobs : IsTerminal(j)
  /\ \E j \in DOMAIN jobs : jobs[j].status = "COMPLETED"
  /\ \E j \in DOMAIN jobs : jobs[j].status = "FAILED" /\ Calls(j) # <<>>

\* the payload of delivery d decodes into a job_id and a bucket
WellFormedMessage(d) == dmsg[d] # None /\ dmsg[d][1].kind = "valid"

\* an exception was raised while process_job handled delivery d
ProcessingRaised(d) == dexc[d] # None

\* C13: a well-formed message is acked when processing its job succeeded and
\* nacked when processing its job raised an exception
C13_AckOnSuccessNackOnFailure ==
  \A d \in Deliveries :
    (WellFormedMessage(d) /\ dpc[d] = "done") =>
      /\ ProcessingRaised(d) => dack[d] = "nacked"
      /\ ~ProcessingRaised(d) => dack[d] = "acked"

\* C13, what holds: callback acks every well-formed message, whether
\* process_job succeeded, skipped the job or caught an exception
C13_AlwaysAcked ==
  \A d \in Deliveries :
    (WellFormedMessage(d) /\ dpc[d] = "done") => dack[d] = "acked"

\* C14: a message that does not decode into a job_id and a bucket is acked,
\* never nacked, and leads to no collaborator call and no blob write
C14_PoisonAcked ==
  \A d \in Deliveries :
    (dmsg[d] # None /\ ~WellFormedMessage(d)) =>
      /\ dack[d] # "nacked"
      /\ dpc[d] = "done" => dack[d] = "acked"
      /\ dcalls[d] = 0
      /\ dwrites[d] = 0

\* C14, what holds: only invalid JSON is acked; the other undecodable
\* payloads are nacked; none of them reaches process_job
C14_OnlyInvalidJsonAcked ==
  \A d \in Deliveries :
    (dmsg[d] # None /\ ~WellFormedMessage(d) /\ dpc[d] = "done") =>
      /\ dack[d] = IF dmsg[d][1].kind = "invalid_json" THEN "acked"
                   ELSE "nacked"
      /\ dcalls[d] = 0
      /\ dwrites[d] = 0

\* C15: no modify_ack_deadline call is made for a message after callback
\* acked or nacked it
C15_NoExtendAfterAck ==
  \A d \in Deliveries :
    \A i \in 1..Len(dext[d]) : dext[d][i] = "none"

\* C15, what holds: the thread extends the deadline while the job is in
\* flight, makes at most one call after stop_acking was set, and ends
C15_AtMostOneLateExtend ==
  \A d \in Deliveries :
    /\ Cardinality({i \in 1..Len(dext[d]) : dext[d][i] # "none"}) <= 1
    /\ tpc[d] # "off" => WellFormedMessage(d)

\* the collaborators in the order _process_job awaits them
StageOrder == <<"separate_drums", "transcribe_drums", "midi_to_musicxml">>

\* the progress saved right after a collaborator returned
ProgressAfter ==
  [separate_drums |-> 40, transcribe_drums |-> 70, midi_to_musicxml |-> 95]

\* positions of the collaborator calls in the trace of a job
CallPositions(j) == {i \in 1..Len(trace[j]) : trace[j][i].ev = "call"}

\* the collaborator called at position i returned: the save that follows
\* the await was made before position k
ReturnedBefore(j, i, k) ==
  \E r \in (i + 1)..(k - 1) :
    /\ trace[j][r].ev = "save"
    /\ trace[j][r].status # "FAILED"
    /\ trace[j][r].progress = ProgressAfter[trace[j][i].what]

\* C16: within one job the collaborators are invoked at most once each and
\* in the order separate_drums, transcribe_drums, midi_to_musicxml; a
\* collaborator is invoked only after the previous one returned, and after
\* the job was saved as Failed no collaborator is invoked again
C16_StagesOnceInOrder ==
  \A j \in JobIds :
    /\ Len(Calls(j)) <= Len(StageOrder)
    /\ \A n \in 1..Len(Calls(j)) : Calls(j)[n].what = StageOrder[n]
    /\ \A i \in CallPositions(j) : \A k \in CallPositions(j) :
         i < k => ReturnedBefore(j, i, k)
    /\ \A f \in 1..Len(trace[j]) :
         (trace[j][f].ev = "save" /\ trace[j][f].status = "FAILED") =>
           \A k \in CallPositions(j) : k < f

\* one job went through all three stages and another failed in its second
C16_Witness ==
  \E j \in JobIds : \E k \in JobIds :
    /\ Len(Calls(j)) = 3
    /\ jobs[j].status = "COMPLETED"
    /\ FailedInStage(k)
    /\ Len(Calls(k)) = 2

\* the calls of os.remove made on the upload of a job, in order
Removes(j) == SelectSeq(trace[j], LAMBDA e : e.ev = "remove")

\* the upload of job j is still on disk
InputExists(j) == jobs[j].file_path \in uploads

\* every os.remove in the trace of j comes after the save of the terminal
\* status the job has at that moment, and nothing follows it
RemovedOnlyAfterTerminal(j) ==
  \A i \in 1..Len(trace[j]) :
    trace[j][i].ev = "remove" =>
      /\ trace[j][i].status \in TerminalStatuses
      /\ i = Len(trace[j])
      /\ i > 1
      /\ trace[j][i - 1].ev = "save"
      /\ trace[j][i - 1].status = trace[j][i].status

\* status, result and error of j are those of its last save
AsLastSaved(j) ==
  LET s == Saves(j)[Len(Saves(j))] IN
  /\ jobs[j].status = s.status
  /\ (jobs[j].result # None) = s.result
  /\ jobs[j].error = s.error

\* C17: the upload is removed only after the job is terminal; for a
\* Completed job os.remove is called iff CLEANUP_AFTER_PROCESSING is set,
\* for a Failed job it is called whatever the flag; the file is gone exactly
\* when the call succeeded, and a call that raised leaves status, result and
\* error as they were saved
C17_InputCleanup ==
  \A j \in DOMAIN jobs :
    /\ RemovedOnlyAfterTerminal(j)
    /\ ~InputExists(j) => jobs[j].status \in TerminalStatuses
    /\ Len(Removes(j)) <= 1
    /\ jobs[j].status = "COMPLETED" => (Len(Removes(j)) = 1 <=> cleanup_after)
    /\ jobs[j].status = "FAILED" => Len(Removes(j)) = 1
    /\ jobs[j].status \in TerminalStatuses =>
         /\ ~InputExists(j) <=> (Removes(j) # <<>> /\ Removes(j)[1].ok)
         /\ AsLastSaved(j)

\* a job completed, cleanup was configured and os.remove raised: the upload
\* is still there and the job is still Completed with its result
C17_Witness ==
  \E j \in DOMAIN jobs :
    /\ jobs[j].status = "COMPLETED"
    /\ jobs[j].result # None
    /\ cleanup_after
    /\ Removes(j) # <<>>
    /\ ~Removes(j)[1].ok
    /\ InputExists(j)

\* C18: a delivery for a job_id without descriptor is dropped: no step of
\* the worker creates a descriptor for a job_id that has none
C18_NoDescriptorCreated ==
  [][\A j \in WSJobIds : ws_meta[j] = None => ws_meta'[j] = None]_vars

\* what the worker does instead: the descriptor it creates for a job_id that
\* had none is the one update_job_status builds from {"job_id": job_id}
C18_CreatedByUpdateJobStatus ==
  [][\A j \in WSJobIds :
       (ws_meta[j] = None /\ ws_meta'[j] # None) =>
         /\ DOMAIN ws_meta'[j][1] \subseteq
              {"job_id", "status", "progress", "error"}
         /\ ws_meta'[j][1].job_id = j
         /\ ws_meta'[j][1].status \in {"processing", "failed"}]_vars

\* a scan of the poller reaches the directory of job j in this step
Visits(j) ==
  /\ ppc = "for"
  /\ scan_list # <<>>
  /\ Head(scan_list) = j
  /\ scan_list' # scan_list
  /\ prestarts' = prestarts

\* the step neither starts a transcription for j nor writes its descriptor
\* nor touches its files, and the scan goes on with the next directory
Skipped(j) ==
  /\ pcalls'[j] = pcalls[j]
  /\ pwrites'[j] = pwrites[j]
  /\ job_dirs'[j] = job_dirs[j]
  /\ ppc' # "transcribe_audio"
  /\ ppc' # "run_transcription"
  /\ pcur' = pcur

\* C19: in every scan of either poller, a job directory whose output
\* artifact exists or whose descriptor is missing is skipped: no
\* transcription is started and its descriptor is not written
C19_ScanSkips ==
  [][\A j \in JobDirNames :
       (Visits(j) /\ (job_dirs[j].output \/ job_dirs[j].meta = None)) =>
         Skipped(j)]_vars

\* a directory that holds an output artifact, an input and a descriptor
\* still queued was reached by two scans, and nothing was done for it
C19_Witness ==
  \E j \in JobDirNames :
    /\ job_dirs[j].output
    /\ job_dirs[j].input
    /\ DirStatus(j) = "queued"
    /\ pvisits[j] >= 2
    /\ pcalls[j] = 0
    /\ pwrites[j] = 0

\* C20: once worker_local has been restarted, a scan that reaches a job
\* directory whose descriptor says completed or failed skips it, with or
\* without an output artifact: no transcription, no descriptor write
C20_TerminalSkippedAfterRestart ==
  [][\A j \in JobDirNames :
       (/\ poller = "worker_local"
        /\ prestarts > 0
        /\ j \notin processed_jobs
        /\ Visits(j)
        /\ DirStatus(j) \in {"completed", "failed"}) => Skipped(j)]_vars

\* after a restart worker_local passed to process_job a directory with an
\* input, no output artifact and a failed descriptor, and did nothing for it
C20_Witness ==
  \E j \in JobDirNames :
    /\ poller = "worker_local"
    /\ prestarts > 0
    /\ j \in processed_jobs
    /\ DirStatus(j) = "failed"
    /\ ~job_dirs[j].output
    /\ pcalls[j] = 0
    /\ pwrites[j] = 0

\* the descriptor of job j is written in this step
DescriptorWritten(j) == ws_meta'[j] # ws_meta[j]

\* C21: across every descriptor update of process_job the persisted
\* progress never decreases, and it is 100 iff the status is completed
C21_ProgressMonotoneWS ==
  [][\A j \in WSJobIds :
       DescriptorWritten(j) =>
         /\ ws_meta[j] # None =>
              ws_meta'[j][1].progress >= ws_meta[j][1].progress
         /\ ws_meta'[j][1].progress = 100 <=>
              ws_meta'[j][1].status = "completed"]_vars

\* the part of C21 that the code keeps: a written descriptor has progress
\* 100 iff its status is completed, and the progress of a descriptor only
\* decreases in a write of failed (to 0) or of the first processing mark (10)
C21_ProgressShape ==
  [][\A j \in WSJobIds :
       DescriptorWritten(j) =>
         /\ ws_meta'[j][1].progress = 100 <=>
              ws_meta'[j][1].status = "completed"
         /\ (ws_meta[j] # None
               /\ ws_meta'[j][1].progress < ws_meta[j][1].progress) =>
              \/ /\ ws_meta'[j][1].status = "failed"
                 /\ ws_meta'[j][1].progress = 0
              \/ /\ ws_meta'[j][1].status = "processing"
                 /\ ws_meta'[j][1].progress = 10]_vars

\* the fields of a ProcessingJob that are fixed at creation
Identity(job) ==
  <<job.job_id, job.filename, job.file_path, job.created_at>>

\* the persisted record of job j can be read in this state
Readable(j) == load_job(j) # None

\* the keys of a descriptor that update_job_status may assign
MutableKeys == {"status", "progress", "error"}

\* the backend leaves the identity of every job in memory as it is
BackendKeepsIdentity ==
  \A j \in DOMAIN jobs :
    /\ j \in DOMAIN jobs'
    /\ Identity(jobs'[j]) = Identity(jobs[j])

\* every persisted record that can be read carries the identity of the job
\* in memory, which is the one given at creation
PersistedIdentity ==
  \A j \in DOMAIN jobs :
    /\ Identity(jobs[j]) =
         <<j, jobs[j].filename, UploadPath(j, jobs[j].filename),
           jobs[j].created_at>>
    /\ Readable(j) => Identity(from_dict(load_job(j)[1])) = Identity(jobs[j])

\* worker-service keeps every descriptor it finds, with every key other
\* than status, progress and error as it was
WorkerKeepsIdentity ==
  \A j \in WSJobIds :
    ws_meta[j] # None =>
      /\ ws_meta'[j] # None
      /\ \A k \in DOMAIN ws_meta[j][1] \ MutableKeys :
           /\ k \in DOMAIN ws_meta'[j][1]
           /\ ws_meta'[j][1][k] = ws_meta[j][1][k]

\* C22: no step of _process_job / save_job in the backend, and no step of
\* process_job / update_job_status in worker-service, changes the job_id,
\* filename, input reference or created_at of an existing record
C22_IdentityImmutable ==
  /\ []PersistedIdentity
  /\ [][BackendKeepsIdentity /\ WorkerKeepsIdentity]_vars

\* a job was created at one time and reached a terminal status at a later
\* one; its persisted record still carries the identity given at creation
C22_Witness ==
  \E j \in DOMAIN jobs :
    /\ jobs[j].status \in TerminalStatuses
    /\ jobs[j].updated_at # jobs[j].created_at
    /\ Readable(j)
    /\ from_dict(load_job(j)[1]).status = jobs[j].status
    /\ Identity(from_dict(load_job(j)[1])) =
         <<j, jobs[j].filename, UploadPath(j, jobs[j].filename),
           jobs[j].created_at>>

\* the status _process_job assigns before each collaborator
StageStatus ==
  [separate_drums |-> "SEPARATING", transcribe_drums |-> "TRANSCRIBING",
   midi_to_musicxml |-> "GENERATING_SHEET"]

\* the save that must precede a save carrying a new status: the one made
\* after the collaborator of the stage before returned
SaveBeforeStatus ==
  [TRANSCRIBING |-> [status |-> "SEPARATING", progress |-> 40],
   GENERATING_SHEET |-> [status |-> "TRANSCRIBING", progress |-> 70],
   COMPLETED |-> [status |-> "GENERATING_SHEET", progress |-> 95]]

\* C23: when a collaborator is invoked, the most recent save of the job
\* carried the status and intermediate progress of its stage (10, 50, 80);
\* and a save that carries the status of the next stage directly follows
\* the save of the advanced progress (40, 70, 95), which follows the call
C23_SaveAroundCalls ==
  \A j \in JobIds :
    \A i \in 1..Len(trace[j]) :
      LET e == trace[j][i] IN
      /\ e.ev = "call" =>
           /\ i > 1
           /\ trace[j][i - 1].ev = "save"
           /\ trace[j][i - 1].status = StageStatus[e.what]
           /\ trace[j][i - 1].progress = ProgressBefore[e.what]
           /\ e.status = StageStatus[e.what]
      /\ (/\ e.ev = "save"
          /\ e.status \in DOMAIN SaveBeforeStatus
          /\ i > 1
          /\ trace[j][i - 1].status # e.status) =>
           /\ i > 2
           /\ trace[j][i - 1].ev = "save"
           /\ trace[j][i - 1].status = SaveBeforeStatus[e.status].status
           /\ trace[j][i - 1].progress = SaveBeforeStatus[e.status].progress
           /\ trace[j][i - 2].ev = "call"
           /\ StageStatus[trace[j][i - 2].what] = trace[j][i - 1].status

\* the third collaborator is being awaited: five saves and two calls came
\* before its call
C23_Witness ==
  \E j \in DOMAIN jobs :
    /\ Len(trace[j]) = 9
    /\ trace[j][9].ev = "call"
    /\ trace[j][9].what = "midi_to_musicxml"
    /\ jobs[j].progress = 80

\* how many times worker w dequeued job j
TimesTaken(w, j) ==
  Cardinality({i \in 1..Len(workerLog[w]) : workerLog[w][i] = j})

\* the workers that are inside _process_job for job j
RunningFor(j) == {w \in Workers : wjob[w] = Some(j)}

\* job j was put on the queue
WasQueued(j) == j \in Queued \/ j \in Dequeued

\* an id is on the queue at most once, not any more once a worker took it,
\* taken by at most one worker and by that one once; so at most one worker
\* runs _process_job for it
DequeuedAtMostOnce ==
  \A j \in JobIds :
    /\ Cardinality({i \in 1..Len(processing_queue) :
                      processing_queue[i] = j}) <= 1
    /\ j \in Dequeued => j \notin Queued
    /\ \A w \in Workers : \A v \in Workers :
         /\ TimesTaken(w, j) <= 1
         /\ (TimesTaken(w, j) = 1 /\ TimesTaken(v, j) = 1) => w = v
    /\ Cardinality(RunningFor(j)) <= 1
    /\ \A w \in RunningFor(j) : TimesTaken(w, j) = 1

\* C24: every job id put on the processing queue is dequeued by exactly one
\* worker exactly once, so two workers never run _process_job for one id
C24_SingleDelivery ==
  /\ []DequeuedAtMostOnce
  /\ \A j \in JobIds : WasQueued(j) ~> (j \in Dequeued)

\* two workers are inside _process_job, for different jobs, while a third
\* id waits on the queue
C24_Witness ==
  /\ \E w \in Workers : \E v \in Workers :
       /\ w # v
       /\ wjob[w] # None
       /\ wjob[v] # None
       /\ wjob[w] # wjob[v]
  /\ processing_queue # <<>>

\* some save_job call for job j returned True
SavedOnce(j) == \E i \in 1..Len(Saves(j)) : Saves(j)[i].ok

\* C25: with the local-file backend every transition is persisted
\* atomically: once a record of a job was saved, load_job returns a complete
\* record of it, also after a later save_job failed midway
C25_AtomicLocalSave ==
  \A j \in JobIds :
    (~use_cloud_storage /\ SavedOnce(j)) =>
      /\ load_job(j) # None
      /\ from_dict(load_job(j)[1]).job_id = j

\* what holds instead: the object store replaces a blob as a whole, so a
\* saved record stays readable there; and a local file that cannot be read
\* is an empty one left by a save_job that returned False
C25_OnlyLocalTruncation ==
  \A j \in JobIds :
    SavedOnce(j) =>
      /\ use_cloud_storage => load_job(j) # None
      /\ load_job(j) = None =>
           /\ localFiles[j] = Some(<<>>)
           /\ ~Saves(j)[Len(Saves(j))].ok

\* delivery d has written the descriptor of its job as completed
CompletedBy(d) ==
  \/ dpc[d] = "pj_leave_tmp"
  \/ /\ dpc[d] \in {"pj_except", "pj_finally", "cb_stop", "cb_ack", "done"}
     /\ dwrites[d] > 0
     /\ \/ dexc[d] = None
        \/ dexc[d] # None /\ dexc[d][1] \in TmpCleanupErrors

\* C26: once an invocation of process_job has written the descriptor as
\* completed, no later step of that invocation writes the descriptor again
C26_CompletedNotRewritten ==
  [][\A d \in Deliveries :
       CompletedBy(d) => dwrites'[d] = dwrites[d]]_vars

\* the only write an invocation makes after its completed one is the
\* handler's failed/0, after the cleanup of the temporary directory raised
C26_OnlyAfterCleanupRaised ==
  [][\A d \in Deliveries :
       (CompletedBy(d) /\ dwrites'[d] # dwrites[d]) =>
         /\ dpc[d] = "pj_except"
         /\ dexc[d][1] \in TmpCleanupErrors
         /\ ws_meta'[DJob(d)][1].status = "failed"
         /\ ws_meta'[DJob(d)][1].progress = 0]_vars

\* run_transcription raised for job j in the annoteator-worker poller: it
\* was called, it is not running, and the descriptor was not marked
\* completed (the process was not stopped meanwhile)
TranscriptionRaised(j) ==
  /\ poller = "annoteator"
  /\ prestarts = 0
  /\ pcalls[j] > 0
  /\ pcur # Some(j)
  /\ DirStatus(j) # "completed"

\* C27: in annoteator-worker a raising transcription is terminal for the
\* job: the job is recorded as failed and the collaborator is not invoked
\* for it again on later scans
C27_FailureTerminal ==
  /\ [](\A j \in JobDirNames :
         TranscriptionRaised(j) => DirStatus(j) = "failed")
  /\ [][\A j \in JobDirNames :
          TranscriptionRaised(j) => pcalls'[j] = pcalls[j]]_vars

\* what the poller does instead: the raise leaves the descriptor with the
\* status it had and progress 30, and each later scan calls again
C27_LeftAsItWas ==
  \A j \in JobDirNames :
    TranscriptionRaised(j) =>
      /\ job_dirs[j].meta[1].progress = 30
      /\ DirStatus(j) \in {"queued", "processing", "failed"}
      /\ ~job_dirs[j].output
      /\ pcalls[j] <= pscans

\* the second half of C27 alone: no further call after a raise
C27_NoSecondCall ==
  [][\A j \in JobDirNames :
       TranscriptionRaised(j) => pcalls'[j] = pcalls[j]]_vars

\* worker_local would hand the directory of job j to the collaborator: it has
\* an input file, no output file, and a descriptor in status queued
Eligible(j) ==
  /\ poller = "worker_local"
  /\ job_dirs[j].input
  /\ ~job_dirs[j].output
  /\ DirStatus(j) = "queued"

\* C28: in worker_local.main an exception raised while one job directory
\* is handled does not keep the other directories from being handled: every
\* directory with an input file and a queued descriptor is eventually
\* passed to the collaborator, wherever it stands in the scan order
C28_EveryQueuedHandled ==
  \A j \in JobDirNames : Eligible(j) ~> (pcalls[j] > 0)

\* what the code does give: the poller is not stopped by the exception, it
\* starts another scan again and again
C28_PollerKeepsScanning ==
  (poller = "worker_local") => []<>(ppc = "for")

\* and a queued directory is handled when every descriptor in the jobs
\* directory can be parsed
C28_HandledWhenAllReadable ==
  \A j \in JobDirNames :
    (Eligible(j) /\ \A k \in JobDirNames : ~LoadRaises(k))
      ~> (pcalls[j] > 0)

\* an aborted scan: the descriptor of the directory in hand does not parse,
\* and the directories after it in the listing are not looked at
C28_AbortedScan ==
  [][\A j \in JobDirNames :
       (/\ poller = "worker_local"
        /\ Visits(j)
        /\ j \notin processed_jobs
        /\ job_dirs[j].input
        /\ ~job_dirs[j].output
        /\ LoadRaises(j))
       => /\ scan_list' = <<>>
          /\ ppc' = "sleep"
          /\ processed_jobs' = processed_jobs]_vars

\* this step passes the directory of job j to the collaborator
Called(j) ==
  /\ ppc = "for"
  /\ ppc' \in {"transcribe_audio", "run_transcription"}
  /\ pcur' = Some(j)

\* the worker_local process died and was started again, and the directory of
\* job j is as a process that died in mid-stage leaves it: descriptor in
\* status processing, no output file
LeftMidStage(j) ==
  /\ poller = "worker_local"
  /\ prestarts > 0
  /\ DirStatus(j) = "processing"
  /\ ~job_dirs[j].output

Redelivered(d) ==
  /\ dmsg[d] # None
  /\ dmsg[d][1].kind = "valid"
  /\ dstart[d] # None
  /\ dstart[d][1].status = "processing"
  /\ dstart[d][1].input

\* the status check does not turn a redelivery away: when it has looked at a
\* descriptor in status processing, process_job goes on with the job
NotTurnedAway ==
  \A d \in Deliveries :
    (/\ dpc[d] = "pj_check"
     /\ MetaStatus(DJob(d)) = "processing"
     /\ dpc'[d] # dpc[d])
    => dpc'[d] = "pj_mark10"

\* what finished redeliveries leave behind when no bucket operation raised
\* and no delivery of the job is still being handled: the collaborator
\* invoked for the job, the descriptor terminal
ReprocessedWhenDone ==
  \A d \in Deliveries :
    (/\ Redelivered(d)
     /\ dpc[d] = "done"
     /\ InFlight(DJob(d)) = {}
     /\ ws_faults = 0)
    => /\ ws_tcalls[DJob(d)] > 0
       /\ MetaStatus(DJob(d)) \in {"completed", "failed"}

BucketCompletedHasOutput ==
  \A j \in WSJobIds : MetaStatus(j) = "completed" => j \in ws_output

\* a step that makes the descriptor of a job directory completed finds the
\* output file in place, and no step takes an output file away
DirCompletedHasOutput ==
  \A j \in JobDirNames :
    /\ (DirStatus(j) # "completed" /\ DirStatus(j)' = "completed")
         => job_dirs'[j].output
    /\ job_dirs[j].output => job_dirs'[j].output

\* C31: whenever the descriptor of a job has status completed, the output
\* artifact of the job exists: worker-service, worker_local and
\* annoteator-worker write the output before they write completed
C31_CompletedHasOutput ==
  [](BucketCompletedHasOutput) /\ [][DirCompletedHasOutput]_vars

\* a worker has completed a job that had no output before
C31_Witness ==
  \/ \E d \in Deliveries :
       /\ dpc[d] \in {"pj_leave_tmp", "cw_ack"}
       /\ dstart[d][1].status = "queued"
       /\ MetaStatus(DJob(d)) = "completed"
       /\ DJob(d) \in ws_output
  \/ \E j \in JobDirNames :
       /\ pcalls[j] > 0
       /\ DirStatus(j) = "completed"
       /\ job_dirs[j].output

\* positions of process_job between the duplicate check and the end of the
\* finally block
OwnerLabels ==
  {"pj_check", "pj_mark10", "pj_input", "pj_mark30", "pj_mark30b",
   "pj_transcribe", "pj_mark90", "pj_upload", "pj_mark100", "pj_leave_tmp",
   "pj_except", "pj_finally"}

\* the invocations of process_job that passed the duplicate check for job j
\* and have not left yet
Owners(j) ==
  {d \in Deliveries : dpc[d] \in OwnerLabels /\ DJob(d) = j}

\* delivery d was dropped by the duplicate check in this step
DroppedAsDuplicate(d) ==
  /\ dpc[d] = "pj_dedup"
  /\ dpc'[d] = "cb_stop"

\* C32: in worker-service a job id is in processing_jobs exactly while one
\* invocation of process_job for it is between its duplicate check and its
\* return; every exit of that invocation removes the id, and a duplicate
\* that the check drops does not remove the id of the invocation in flight
C32_ProcessingJobsOwned ==
  /\ [](\A j \in WSJobIds :
          /\ Cardinality(Owners(j)) <= 1
          /\ j \in processing_jobs <=> Owners(j) # {})
  /\ [][\A d \in Deliveries :
          DroppedAsDuplicate(d)
            => /\ processing_jobs' = processing_jobs
               /\ Owners(DJob(d))' = Owners(DJob(d))
               /\ Owners(DJob(d)) # {}]_vars

\* a duplicate was dropped and acked while the first delivery is inside the
\* transcription, and the id is still in processing_jobs
C32_Witness ==
  \E d, e \in Deliveries :
    /\ d # e
    /\ dpc[d] = "pj_transcribe"
    /\ dpc[e] = "done"
    /\ dmsg[e] = dmsg[d]
    /\ dstart[e][1].overlap = {d}
    /\ dwrites[e] = 0
    /\ DJob(d) \in processing_jobs

\* the duplicate check of process_job dropped delivery d
Dropped(d) == dstart[d] # None /\ dstart[d][1].duplicate

\* what a dropped duplicate has done: no transcription, no write, no nack
DroppedDidNothing ==
  \A d \in Deliveries :
    Dropped(d) => /\ dcalls[d] = 0
                  /\ dwrites[d] = 0
                  /\ dexc[d] = None
                  /\ dack[d] # "nacked"
                  /\ dpc[d] \in {"cb_stop", "cb_ack", "done"}
                  /\ dpc[d] = "done" <=> dack[d] = "acked"

\* the steps of a dropped duplicate leave the descriptors and the outputs
\* alone, and they do not wait for the delivery that owns the job
DroppedWritesNothing ==
  \A d \in Deliveries :
    (Dropped(d)' /\ dpc'[d] # dpc[d])
      => /\ ws_meta' = ws_meta
         /\ ws_output' = ws_output
         /\ processing_jobs' = processing_jobs

\* C33: a duplicate delivery that process_job of worker-service drops
\* because its job id is in processing_jobs is acked by callback, also while
\* the first delivery is still being processed; it is not nacked and no
\* descriptor write is made for it
C33_DroppedDuplicateAcked ==
  /\ []DroppedDidNothing
  /\ [][DroppedWritesNothing]_vars
  /\ [](\A d \in Deliveries :
          (Dropped(d) /\ dpc[d] # "done")
            => ENABLED (cb_stop(d) \/ cb_ack(d)))

\* and with its callback thread running, the dropped duplicate is acked
C33_EventuallyAcked ==
  \A d \in Deliveries : Dropped(d) ~> (dack[d] = "acked")

\* the duplicate is acked, and the delivery that owns the job has not yet
\* called the transcription
C33_Witness ==
  \E d, e \in Deliveries :
    /\ Dropped(e)
    /\ dack[e] = "acked"
    /\ DJob(d) = DJob(e)
    /\ dpc[d] = "pj_mark10"
    /\ dack[d] = "none"

\* the input of job j is in place and complete, in the bucket or in the
\* jobs directory
InputComplete(j) ==
  IF ApiUsesCloud THEN j \in ws_input
  ELSE job_dirs[j].input /\ j \notin partial_input

\* a message is on the topic only when input and descriptor are in the
\* bucket, and a descriptor file exists only when the input file is complete
SubmittedInOrder ==
  /\ \A j \in published : j \in ws_input /\ ws_meta[j] # None
  /\ \A j \in JobDirNames :
       HasDescriptor(j) => job_dirs[j].input /\ j \notin partial_input

\* the step that publishes finds the descriptor as transcribe wrote it
PublishedAfterQueued ==
  \A j \in WSJobIds :
    (j \in published' /\ j \notin published)
      => ws_meta[j] = Some(QueuedMeta(j)) /\ j \in ws_input

\* no worker is handling, or has handled, a job whose input is missing or
\* incomplete
StartedWithInput ==
  /\ \A d \in Deliveries : dmsg[d] # None => InputComplete(DJob(d))
  /\ \A j \in WSJobIds : ws_tcalls[j] > 0 => InputComplete(j)
  /\ \A j \in JobDirNames : pcalls[j] > 0 => InputComplete(j)
  /\ \A d \in Deliveries :
       dexc[d] \notin {Some("Input file not found for job"),
                       Some("404 No such object")}

\* C34: transcribe of api-service publishes the message only after the
\* input object and the descriptor (queued, progress 0) are written, and in
\* local mode it creates the descriptor only after the input file is
\* completely written; so a worker that waits for the message or for the
\* descriptor never starts a job whose input is missing or incomplete
C34_InputBeforeStart ==
  /\ [](SubmittedInOrder /\ StartedWithInput)
  /\ [][PublishedAfterQueued]_vars

\* a worker is transcribing a job that api-service submitted while
\* api-service is still writing the input of another upload
C34_Witness ==
  \E r \in Requests :
    /\ apc[r] \in {"upload_input", "write_input"}
    /\ \/ \E d \in Deliveries :
            dpc[d] \in {"pj_transcribe", "cj_transcribe"}
       \/ ppc \in {"transcribe_audio", "run_transcription"}

(***************************************************************************)
(* ProcessingService across a restart of the backend process               *)
(***************************************************************************)
\* a get_job_status that puts the id it loaded from storage on the queue
StatusRequeues(job_id) ==
  IF /\ job_id \notin DOMAIN jobs
     /\ load_job(job_id) # None
     /\ Len(processing_queue) < MAX_CONCURRENT_JOBS
  THEN Append(processing_queue, job_id)
  ELSE processing_queue

\* get_job_status, lines 151-165: there is no processing_queue.put in it
StatusLeavesQueue(job_id) == processing_queue

\* a call of ProcessingService.get_job_status(job_id), lines 151-165: a job
\* found in storage and not in the cache is cached
get_job_status_call(job_id) ==
  /\ UNCHANGED <<initialized, cleanup_after, storeVars, uploads, now, issued,
                 putters, workers_started, spawned, workerVars, histVars>>
  /\ UNCHANGED wsVars
  /\ processing_queue' = StatusLeavesQueue(job_id)
  /\ jobs' = IF job_id \notin DOMAIN jobs /\ get_job_status(job_id) # None
             THEN (job_id :> get_job_status(job_id)[1]) @@ jobs
             ELSE jobs

\* the backend process ends and a new one is started: ProcessingService is
\* constructed again (lines 72-84) with an empty cache, an empty queue and no
\* worker tasks; the tasks of the old process are gone, the storage stays.
\* The model has worker slots for MaxSpawns processes.
restart_process ==
  /\ spawned + MAX_CONCURRENT_JOBS <= Cardinality(Workers)
  /\ jobs' = EmptyDict
  /\ processing_queue' = <<>>
  /\ putters' = {}
  /\ workers_started' = FALSE
  /\ wpc' = [w \in Workers |-> "none"]
  /\ wjob' = [w \in Workers |-> None]
  /\ UNCHANGED <<initialized, cleanup_after, storeVars, uploads, now, issued,
                 spawned, histVars>>
  /\ UNCHANGED wsVars

\* a backend with its models loaded, on local storage, without I/O faults
InitRestart ==
  /\ BackendIdle
  /\ WSIdle

NextRestart ==
  \/ Next
  \/ \E job_id \in JobIds : get_job_status_call(job_id)
  \/ restart_process

\* the backend with status requests and process restarts
SpecRestart == InitRestart /\ [][NextRestart]_vars

\* the stored record of job j, as both storages hold it
StoredRecord(j) == <<localFiles[j], gcsBlobs[j]>>

\* job j is persisted in a non-terminal state and nothing in the process
\* holds its id: not the queue, not a blocked put, not a worker
Orphan(j) ==
  /\ \A i \in 1..Len(processing_queue) : processing_queue[i] # j
  /\ j \notin putters
  /\ \A w \in Workers : wjob[w] # Some(j)
  /\ load_job(j) # None
  /\ from_dict(load_job(j)[1]).status \notin TerminalStatuses

\* the step caches a job that create_job of this process did not make: it
\* is get_job_status loading a record from storage
CachesStored(job_id) ==
  /\ job_id \notin DOMAIN jobs
  /\ job_id \in DOMAIN jobs'
  /\ issued' = issued

\* a call of get_job_status that loads a record changes nothing but the
\* cache, and the cache only by the record it read
StatusOnlyReads ==
  \A job_id \in JobIds :
    CachesStored(job_id) =>
      /\ processing_queue' = processing_queue
      /\ putters' = putters
      /\ workerVars' = workerVars
      /\ localFiles' = localFiles
      /\ gcsBlobs' = gcsBlobs
      /\ trace' = trace
      /\ lastSave' = lastSave
      /\ jobs' = (job_id :> from_dict(load_job(job_id)[1])) @@ jobs

\* whatever the step, an orphan stays one: after the step its id is in no
\* queue, no blocked put and no worker, its record is as it was and no save or
\* collaborator call was made for it; or the job was no orphan before the step
OrphanStays ==
  \A j \in JobIds :
    \/ /\ \A i \in 1..Len(processing_queue') : processing_queue'[i] # j
       /\ j \notin putters'
       /\ \A w \in Workers : wjob'[w] # Some(j)
       /\ StoredRecord(j)' = StoredRecord(j)
       /\ trace'[j] = trace[j]
    \/ ~Orphan(j)

\* C35: get_job_status only reads: it may load a record from storage into
\* the cache but never enqueues an id and never writes to storage; so a job
\* persisted in a non-terminal state whose id is not on the queue (after a
\* process restart, say) is never picked up by a worker and keeps its
\* persisted status forever
C35_StatusNeverRequeues == [][StatusOnlyReads /\ OrphanStays]_vars

\* after a restart the workers of the new process run another job while a
\* job the old process left pending or processing sits in the cache, loaded
\* there by get_job_status, and nothing holds its id
C35_Witness ==
  \E j \in JobIds, w \in Workers :
    /\ Orphan(j)
    /\ j \in DOMAIN jobs
    /\ jobs[j].status \notin TerminalStatuses
    /\ wpc[1] = "none"
    /\ wjob[w] # None
    /\ wpc[w] \notin {"none", "get"}

====
